---------------------------- MODULE Spec2Model ----------------------------
(***************************************************************************)
(* Model of the feature reconciliation, odds normalisation and scoring     *)
(* core of the football betting assistant:                                 *)
(*   - scheduler/index.ts : mergeMatchData, isSimilarTeamName,             *)
(*                          generateFeatures and its helpers               *)
(*   - normalize          : createOddsObject, calculateFairOdds,           *)
(*                          normalizeBookmakerOdds, findBestOdds           *)
(*   - model/predict      : predictMatches, predict1X2, predictBTTS,       *)
(*                          predictOverUnder                               *)
(*   - prediction.service : PredictionEngine.generateWeekendPredictions    *)
(*                                                                         *)
(* JavaScript numbers are modelled as exact rationals [n, d] (d > 0, in    *)
(* lowest terms); in a number slot undefined is [n |-> 0, d |-> 0] and NaN *)
(* is [n |-> 1, d |-> 0].  An array slot is [def, v] (def = FALSE when the *)
(* property is undefined), a string slot holds "undefined" when absent.    *)
(* Team names are sequences of one-character strings.                      *)
(***************************************************************************)
EXTENDS Integers, Sequences, FiniteSets, TLC

VARIABLES
    \* ---- mergeMatchData (Source Reconciler) ----
    mpc,                \* position in mergeMatchData: "idle","sv","fs","done"
    flashscoreMatches,  \* the primary input array (as passed by the caller)
    mergedMatches,      \* the accumulating list
    svMatch,            \* the Soccervista record handled by the last iteration
    fsMatch,            \* the Freesupertips record handled by the last iteration
    lastMerge,          \* history: what the last iteration did and the list before it
    nSecondary,         \* number of secondary records consumed so far
    \* ---- normalize (Odds Normalizer / Best-Price Selector) ----
    opc,                \* "idle","input","normalized","best","error"
    rawOdds,            \* the raw bookmaker quote records handed to the normalizer
    bookmakerOddsArray, \* the BookmakerOdds objects built from rawOdds
    bestResult,         \* what findBestOdds returned, or "none"
    \* ---- generateFeatures + predictMatches (mode a) ----
    ppc,                \* "idle","loop","returned"
    matches,            \* MatchFeatures[] handed to predictMatches
    pIdx,               \* loop position in predictMatches
    predictions,        \* the predictions array being built
    thrown,             \* match ids whose iteration ended in the catch block
    \* ---- PredictionEngine.generateWeekendPredictions (mode b) ----
    epc,                \* "idle","loop","returned"
    upcomingMatches,    \* result of getUpcomingWeekendMatches
    eIdx,               \* loop position
    enginePredictions,  \* the local predictions array
    store,              \* prisma.prediction: matchId -> record or "none"
    engineLog,          \* per processed match: what happened to it
    \* ---- one call of a pure function of the core ----
    cpc,                \* "idle","called","returned"
    callee,             \* the function that is called
    callArgs,           \* its arguments
    callResult,         \* what it returned
    \* ---- SportmonksClient (one instance, shared by every caller) ----
    now,                \* Date.now(), in milliseconds
    lastRequestTime,    \* this.lastRequestTime
    callers,            \* per caller of request(): where it is, when its timer fires
    sent,               \* the start times of the HTTP requests sent so far
    \* ---- CacheService (one instance) ----
    isEnabled,          \* this.isEnabled
    redis,              \* this.client and the connection: "null","up","down"
    times,              \* reconnection attempts handed to retryStrategy so far
    commands,           \* the commands sent to Redis so far
    cacheReturn         \* how the last cache operation ended

mergeVars   == <<mpc, flashscoreMatches, mergedMatches, svMatch, fsMatch, lastMerge, nSecondary>>
oddsVars    == <<opc, rawOdds, bookmakerOddsArray, bestResult>>
predictVars == <<ppc, matches, pIdx, predictions, thrown>>
engineVars  == <<epc, upcomingMatches, eIdx, enginePredictions, store, engineLog>>
callVars    == <<cpc, callee, callArgs, callResult>>
clientVars  == <<now, lastRequestTime, callers, sent>>
cacheVars   == <<isEnabled, redis, times, commands, cacheReturn>>
vars        == <<mergeVars, oddsVars, predictVars, engineVars, callVars, clientVars, cacheVars>>

-----------------------------------------------------------------------------
(***************************************************************************)
(* JavaScript values                                                       *)
(***************************************************************************)
Undefined == [n |-> 0, d |-> 0]
NaN       == [n |-> 1, d |-> 0]
NoString  == "undefined"
NoArray   == [def |-> FALSE, v |-> <<>>]
Arr(s)    == [def |-> TRUE, v |-> s]

Abs(x)     == IF x < 0 THEN -x ELSE x

RECURSIVE Gcd(_, _)
Gcd(a, b)  == IF b = 0 THEN Abs(a) ELSE Gcd(b, a % b)

\* The rational n/d in lowest terms with a positive denominator.
R(n, d)    == LET s == IF d < 0 THEN -1 ELSE 1
                  g == Gcd(Abs(n), Abs(d))
              IN  [n |-> s * (n \div g), d |-> s * (d \div g)]
Num(k)     == [n |-> k, d |-> 1]
Zero       == Num(0)
One        == Num(1)

IsNum(x)   == x.d # 0

\* arithmetic on undefined or NaN gives NaN
RAdd(a, b) == IF ~IsNum(a) \/ ~IsNum(b) THEN NaN
              ELSE LET g == Gcd(a.d, b.d)
                   IN  R(a.n * (b.d \div g) + b.n * (a.d \div g), (a.d \div g) * b.d)
RNeg(a)    == [n |-> -a.n, d |-> a.d]
RSub(a, b) == RAdd(a, RNeg(b))
RMul(a, b) == IF ~IsNum(a) \/ ~IsNum(b) THEN NaN
              ELSE LET g1 == Gcd(Abs(a.n), b.d)
                       g2 == Gcd(Abs(b.n), a.d)
                   IN  R((a.n \div g1) * (b.n \div g2), (a.d \div g2) * (b.d \div g1))
\* b # 0
RDiv(a, b) == RMul(a, R(b.d, b.n))
\* comparisons by the sign of the difference (no cross products)
RLt(a, b)  == RSub(a, b).n < 0
RLe(a, b)  == RSub(a, b).n <= 0
RGt(a, b)  == RLt(b, a)
RGe(a, b)  == RLe(b, a)
RAbs(a)    == [n |-> Abs(a.n), d |-> a.d]
RMin(a, b) == IF RLt(b, a) THEN b ELSE a
RMax(a, b) == IF RGt(b, a) THEN b ELSE a
\* Math.round: the nearest integer, halves towards +infinity.
RRound(a)  == (2 * a.n + a.d) \div (2 * a.d)

\* JavaScript truthiness (!x is its negation): of a number slot (undefined,
\* NaN and 0 are falsy), of an array slot (every array is truthy, also the
\* empty one) and of a string slot (undefined and '' are falsy).
TruthyNum(x) == IsNum(x) /\ x.n # 0
TruthyArr(x) == x.def
TruthyStr(x) == x # NoString /\ x # ""

\* JavaScript division of two numbers: x / 0 is NaN here only for 0 / 0,
\* the one zero-denominator case the normalizer can produce.
JsDiv(a, b) == IF ~IsNum(a) \/ ~IsNum(b) THEN NaN
               ELSE IF b.n = 0 THEN NaN
               ELSE RDiv(a, b)

-----------------------------------------------------------------------------
(***************************************************************************)
(* Identity Matcher: isSimilarTeamName and levenshteinDistance             *)
(***************************************************************************)
UpperCaseLetters == <<"A", "B", "C", "D", "E", "F", "G", "H", "I", "J", "K", "L",
                     "M", "N", "O", "P", "Q", "R", "S", "T", "U", "V", "W", "X",
                     "Y", "Z">>
LowerCaseLetters == <<"a", "b", "c", "d", "e", "f", "g", "h", "i", "j", "k", "l",
                     "m", "n", "o", "p", "q", "r", "s", "t", "u", "v", "w", "x",
                     "y", "z">>
UpperCase == {UpperCaseLetters[i] : i \in 1..26}
LowerCase == {LowerCaseLetters[i] : i \in 1..26}
Digits    == {"0", "1", "2", "3", "4", "5", "6", "7", "8", "9"}

toLowerCase(c) == IF c \in UpperCase
                  THEN LowerCaseLetters[CHOOSE i \in 1..26 : UpperCaseLetters[i] = c]
                  ELSE c

\* \w and \s of the regular expressions, and [a-z0-9]
IsWordChar(c)   == c \in UpperCase \cup LowerCase \cup Digits \cup {"_"}
IsSpace(c)      == c = " "
IsAlnumLower(c) == c \in LowerCase \cup Digits

\* \b between positions i-1 and i
Boundary(s, i) == (i - 1 >= 1 /\ i - 1 <= Len(s) /\ IsWordChar(s[i - 1]))
                    # (i >= 1 /\ i <= Len(s) /\ IsWordChar(s[i]))
MatchAt(s, i, tok) == /\ i >= 1
                      /\ i + Len(tok) - 1 <= Len(s)
                      /\ \A k \in 1..Len(tok) : s[i + k - 1] = tok[k]

\* the first position from i on that holds no white space
RECURSIVE SkipSpaces(_, _)
SkipSpaces(s, i) == IF i <= Len(s) /\ IsSpace(s[i]) THEN SkipSpaces(s, i + 1) ELSE i

\* tok\b at j: the position after the match, or 0
TokThenBoundary(s, j, tok) ==
    IF MatchAt(s, j, tok) /\ Boundary(s, j + Len(tok)) THEN j + Len(tok) ELSE 0

\* /\s+tok\b/ anchored at i: the position after the match, or 0
PreMatchEnd(s, i, tok) ==
    IF i <= Len(s) /\ IsSpace(s[i]) THEN TokThenBoundary(s, SkipSpaces(s, i), tok) ELSE 0

\* /\btok\s+/ anchored at i: the position after the match, or 0
PostMatchEnd(s, i, tok) ==
    IF Boundary(s, i) /\ MatchAt(s, i, tok)
       /\ i + Len(tok) <= Len(s) /\ IsSpace(s[i + Len(tok)])
    THEN SkipSpaces(s, i + Len(tok)) ELSE 0

FirstMatch(a, b, c) == IF a > 0 THEN a ELSE IF b > 0 THEN b ELSE c

\* /\s+t1\b|\bt1\s+|\s+t2\b|\bt2\s+/ anchored at i, the alternatives in order:
\* the position after the match, or 0
RECURSIVE AltMatchEnd(_, _, _, _)
AltMatchEnd(s, i, toks, k) ==
    IF k > Len(toks) THEN 0
    ELSE FirstMatch(PreMatchEnd(s, i, toks[k]), PostMatchEnd(s, i, toks[k]),
                    AltMatchEnd(s, i, toks, k + 1))

\* String.prototype.replace(/.../g, ' '), scanning from position i; e is the end
\* of the match anchored at i, or 0
RECURSIVE ReplaceTokens(_, _, _)
ReplaceFrom(s, i, toks, e) ==
    IF e > 0 THEN <<" ">> \o ReplaceTokens(s, e, toks)
    ELSE <<s[i]>> \o ReplaceTokens(s, i + 1, toks)
ReplaceTokens(s, i, toks) ==
    IF i > Len(s) THEN <<>> ELSE ReplaceFrom(s, i, toks, AltMatchEnd(s, i, toks, 1))

TokFC     == << <<"f", "c">>, <<"f", ".", "c", ".">> >>
TokUnited == << <<"u", "n", "i", "t", "e", "d">>, <<"u", "t", "d">> >>
TokCity   == << <<"c", "i", "t", "y">> >>

LowerCased(name) == [i \in 1..Len(name) |-> toLowerCase(name[i])]

\* the four replace calls, one after the other
normalize(name) ==
    CHOOSE stripped \in
        {SelectSeq(noCity, IsAlnumLower) :
            noCity \in {ReplaceTokens(noUnited, 1, TokCity) :
                noUnited \in {ReplaceTokens(noFC, 1, TokUnited) :
                    noFC \in {ReplaceTokens(lower, 1, TokFC) :
                        lower \in {LowerCased(name)}}}}} : TRUE

Includes(s, t) == \E i \in 1..(Len(s) - Len(t) + 1) : MatchAt(s, i, t)

Min3(a, b, c) == IF a <= b /\ a <= c THEN a ELSE IF b <= c THEN b ELSE c

\* the inner loop over j of row i of the distance matrix;
\* prev[j + 1] is dp[i-1][j], cur[j + 1] is dp[i][j]
RECURSIVE LevCols(_, _, _, _, _, _)
LevCols(prev, cur, i, j, str1, str2) ==
    IF j > Len(str2) THEN cur
    ELSE LevCols(prev,
                 Append(cur, Min3(prev[j + 1] + 1,
                                  cur[j] + 1,
                                  prev[j] + (IF str1[i] = str2[j] THEN 0 ELSE 1))),
                 i, j + 1, str1, str2)

RECURSIVE LevRows(_, _, _, _)
LevRows(prev, i, str1, str2) ==
    IF i > Len(str1) THEN prev[Len(str2) + 1]
    ELSE CHOOSE distance \in
            {LevRows(row, i + 1, str1, str2) :
                row \in {LevCols(prev, <<i>>, i, 1, str1, str2)}} : TRUE

levenshteinDistance(str1, str2) ==
    LevRows([j \in 1..(Len(str2) + 1) |-> j - 1], 1, str1, str2)

IntMax(a, b) == IF a > b THEN a ELSE b

Threshold_Flat(maxLength) == 2
Threshold(maxLength) == IF maxLength > 10 THEN 3 ELSE IF maxLength > 5 THEN 2 ELSE 1

\* mutant: the substring test in one direction only
SimilarNormalized_OneWay(normName1, normName2) ==
    \/ normName1 = normName2
    \/ Includes(normName1, normName2)
    \/ levenshteinDistance(normName1, normName2)
          <= Threshold(IntMax(Len(normName1), Len(normName2)))

\* the decision on the two normalized names
SimilarNormalized(normName1, normName2) ==
    \/ normName1 = normName2
    \/ Includes(normName1, normName2)
    \/ Includes(normName2, normName1)
    \/ levenshteinDistance(normName1, normName2)
          <= Threshold(IntMax(Len(normName1), Len(normName2)))

isSimilarTeamName(name1, name2) == SimilarNormalized(normalize(name1), normalize(name2))

\* Team names as the sources spell them: the examples of the specification,
\* near misses at each length band, and names with the club tokens in every
\* position.
NameManchesterUnited == <<"M", "a", "n", "c", "h", "e", "s", "t", "e", "r", " ", "U", "n", "i", "t", "e", "d">>
NameManUtd == <<"M", "a", "n", " ", "U", "t", "d">>
NameLiverpoolFC == <<"L", "i", "v", "e", "r", "p", "o", "o", "l", " ", "F", "C">>
NameLiverpool == <<"L", "i", "v", "e", "r", "p", "o", "o", "l">>
NameArsenal == <<"A", "r", "s", "e", "n", "a", "l">>
NameChelsea == <<"C", "h", "e", "l", "s", "e", "a">>
NameArsenol == <<"A", "r", "s", "e", "n", "o", "l">>
NameArsenalFdotCdot == <<"A", "r", "s", "e", "n", "a", "l", " ", "F", ".", "C", ".">>
NameChelsae == <<"C", "h", "e", "l", "s", "a", "e">>
NameLoneFC == <<"F", "C">>
NameLoneUtd == <<"U", "t", "d">>
NameLoneCity == <<"C", "i", "t", "y">>
NameArsDashFC == <<"A", "r", "s", "-", "F", "C">>
NameManCity == <<"M", "a", "n", " ", "C", "i", "t", "y">>
NameFCArs == <<"F", "C", " ", "A", "r", "s">>
NameFCFC == <<"F", "C", " ", "F", "C">>
NameAre == <<"A", "r", "e">>
NameLeeds == <<"L", "e", "e", "d", "s">>
NameLeedz == <<"L", "e", "e", "d", "z">>
NameLexdz == <<"L", "e", "x", "d", "z">>
NameFulham == <<"F", "u", "l", "h", "a", "m">>
NameFulhxy == <<"F", "u", "l", "h", "x", "y">>
NameManchxstxy == <<"M", "a", "n", "c", "h", "x", "s", "t", "x", "y">>
NameSouthampton == <<"S", "o", "u", "t", "h", "a", "m", "p", "t", "o", "n">>
NameSouthamxtxy == <<"S", "o", "u", "t", "h", "a", "m", "x", "t", "x", "y">>
NameSouthxmxtxy == <<"S", "o", "u", "t", "h", "x", "m", "x", "t", "x", "y">>
NameSchalke04 == <<"S", "c", "h", "a", "l", "k", "e", " ", "0", "4">>
NameEmpty == <<>>
NameLeedzUtd == <<"L", "e", "e", "d", "z", " ", "U", "t", "d">>
NameManchesterCity == <<"M", "a", "n", "c", "h", "e", "s", "t", "e", "r", " ", "C", "i", "t", "y">>
NameFCUnited == <<"F", "C", " ", "U", "n", "i", "t", "e", "d">>
NameDashes == <<"-", "-">>
MatcherNames ==
    {NameManchesterUnited, NameManUtd, NameLiverpoolFC, NameLiverpool,
     NameArsenal, NameChelsea, NameArsenol, NameArsenalFdotCdot, NameChelsae,
     NameLoneFC, NameLoneUtd, NameLoneCity, NameArsDashFC, NameManCity,
     NameFCArs, NameFCFC, NameAre, NameLeeds, NameLeedz, NameLexdz,
     NameFulham, NameFulhxy, NameManchxstxy, NameSouthampton,
     NameSouthamxtxy, NameSouthxmxtxy, NameSchalke04, NameEmpty,
     NameLeedzUtd, NameManchesterCity, NameFCUnited, NameDashes}

\* The team names the sources of the model use.
Ars   == <<"A", "r", "s">>
ArsFC == <<"A", "r", "s", " ", "F", "C">>
Che   == <<"C", "h", "e">>
Lee   == <<"L", "e", "e">>
Eve   == <<"E", "v", "e">>
TeamNames == {Ars, ArsFC, Che, Lee, Eve, NameManchesterUnited, NameManchesterCity, NameArsenal}

\* isSimilarTeamName tabulated over the names of the model.
Similar == [p \in TeamNames \X TeamNames |-> isSimilarTeamName(p[1], p[2])]

-----------------------------------------------------------------------------
(***************************************************************************)
(* Source Reconciler: mergeMatchData (scheduler/index.ts 394-448)          *)
(***************************************************************************)
MaxPrimary   == 2     \* longest Flashscore array
MaxSecondary == 2     \* Soccervista + Freesupertips records merged in one call

NumFields == {"home_odds", "draw_odds", "away_odds", "kickoff_timestamp",
              "home_goals_scored_last5", "home_goals_conceded_last5",
              "away_goals_scored_last5", "away_goals_conceded_last5"}
ArrFields == {"h2h_matches", "home_form", "away_form"}
StrFields == {"prediction", "sv_prediction", "fs_prediction", "kickoff_time"}
KeyFields == {"home_team", "away_team"}
AllFields == NumFields \cup ArrFields \cup StrFields \cup KeyFields

\* a || b and !!a, by the kind of the field
Truthy(f, v) == IF f \in NumFields THEN TruthyNum(v)
                ELSE IF f \in ArrFields THEN TruthyArr(v)
                ELSE IF f \in StrFields THEN TruthyStr(v)
                ELSE TRUE
Or(f, a, b)  == IF Truthy(f, a) THEN a ELSE b

\* A source record with only its team names set.
BareRecord(home, away) ==
    [home_team |-> home, away_team |-> away,
     prediction |-> NoString, sv_prediction |-> NoString, fs_prediction |-> NoString,
     kickoff_time |-> NoString, kickoff_timestamp |-> Undefined,
     home_odds |-> Undefined, draw_odds |-> Undefined, away_odds |-> Undefined,
     h2h_matches |-> NoArray, home_form |-> NoArray, away_form |-> NoArray,
     home_goals_scored_last5 |-> Undefined, home_goals_conceded_last5 |-> Undefined,
     away_goals_scored_last5 |-> Undefined, away_goals_conceded_last5 |-> Undefined]

H2H(home, away, hs, as) == [home_team |-> home, away_team |-> away,
                            home_score |-> hs, away_score |-> as]

\* Records a Flashscore scrape can deliver.
FlashFull(home, away) ==
    [BareRecord(home, away) EXCEPT
        !.home_odds = R(2, 1), !.draw_odds = R(3, 1), !.away_odds = R(4, 1),
        !.home_form = Arr(<<"W", "W", "D", "L", "W">>), !.away_form = Arr(<<"L", "D">>),
        !.h2h_matches = Arr(<<H2H(home, away, 2, 1)>>),
        !.home_goals_scored_last5 = Num(8), !.home_goals_conceded_last5 = Num(6),
        !.away_goals_scored_last5 = Num(7), !.away_goals_conceded_last5 = Num(5)]
FlashRecords == {BareRecord(Ars, Che), FlashFull(Ars, Che), FlashFull(Lee, Eve)}

\* Records a Soccervista scrape can deliver: priced, unpriced, partly priced.
SvPriced(home, away) ==
    [BareRecord(home, away) EXCEPT
        !.prediction = "1",
        !.home_odds = R(9, 5), !.draw_odds = R(18, 5), !.away_odds = R(21, 5)]
SvPartial(home, away) ==
    [BareRecord(home, away) EXCEPT
        !.prediction = "X", !.home_odds = Zero, !.draw_odds = R(5, 2)]
SvRecords == UNION {{SvPriced(t[1], t[2]), BareRecord(t[1], t[2]), SvPartial(t[1], t[2])}
                    : t \in {<<ArsFC, Che>>, <<Lee, Eve>>}}

\* Records Freesupertips can deliver: with statistics, without, with empty ones.
FsFull(home, away) ==
    [BareRecord(home, away) EXCEPT
        !.prediction = "BTTS",
        !.home_form = Arr(<<"L", "L", "W">>), !.away_form = Arr(<<"W", "W", "W", "W", "W">>),
        !.h2h_matches = Arr(<<H2H(away, home, 0, 0), H2H(home, away, 1, 3)>>),
        !.home_goals_scored_last5 = Num(10), !.home_goals_conceded_last5 = Num(4),
        !.away_goals_scored_last5 = Num(3), !.away_goals_conceded_last5 = Num(9)]
FsEmpty(home, away) ==
    [BareRecord(home, away) EXCEPT
        !.prediction = "",
        !.home_form = Arr(<<>>), !.away_form = Arr(<<>>), !.h2h_matches = Arr(<<>>),
        !.home_goals_scored_last5 = Zero, !.home_goals_conceded_last5 = Zero,
        !.away_goals_scored_last5 = Zero, !.away_goals_conceded_last5 = Zero]
FsRecords == UNION {{FsFull(t[1], t[2]), BareRecord(t[1], t[2]), FsEmpty(t[1], t[2])}
                    : t \in {<<ArsFC, Che>>, <<Lee, Eve>>}}
             \cup {FsFull(Che, Ars)}

SeqsUpTo(S, n) == UNION {[1..k -> S] : k \in 0..n}

\* array.find(m => isSimilarTeamName(m.home_team, homeTeam) &&
\*                 isSimilarTeamName(m.away_team, awayTeam)): the index, or 0
findMatchingMatch(array, homeTeam, awayTeam) ==
    LET hits == {i \in 1..Len(array) :
                    /\ Similar[<<array[i].home_team, homeTeam>>]
                    /\ Similar[<<array[i].away_team, awayTeam>>]}
    IN  IF hits = {} THEN 0 ELSE CHOOSE i \in hits : \A k \in hits : i <= k

\* mutant: the operands of || swapped (existing value first)
AssignSoccervista_ExistingFirst(existingMatch, sv) ==
    [existingMatch EXCEPT
        !.sv_prediction = sv.prediction,
        !.home_odds = Or("home_odds", existingMatch.home_odds, sv.home_odds),
        !.draw_odds = Or("draw_odds", existingMatch.draw_odds, sv.draw_odds),
        !.away_odds = Or("away_odds", existingMatch.away_odds, sv.away_odds)]

\* Object.assign(existingMatch, {sv_prediction: ..., home_odds: ..., ...})
AssignSoccervista(existingMatch, sv) ==
    [existingMatch EXCEPT
        !.sv_prediction = sv.prediction,
        !.home_odds = Or("home_odds", sv.home_odds, existingMatch.home_odds),
        !.draw_odds = Or("draw_odds", sv.draw_odds, existingMatch.draw_odds),
        !.away_odds = Or("away_odds", sv.away_odds, existingMatch.away_odds)]

\* Object.assign(existingMatch, {fs_prediction: ..., h2h_matches: ..., ...})
AssignFreesupertips(existingMatch, fs) ==
    LET goals(f) == Or(f, Or(f, fs[f], existingMatch[f]), Zero)
    IN  [existingMatch EXCEPT
            !.fs_prediction = fs.prediction,
            !.h2h_matches = Or("h2h_matches", fs.h2h_matches, existingMatch.h2h_matches),
            !.home_form = Or("home_form", fs.home_form, existingMatch.home_form),
            !.away_form = Or("away_form", fs.away_form, existingMatch.away_form),
            !.home_goals_scored_last5 = goals("home_goals_scored_last5"),
            !.home_goals_conceded_last5 = goals("home_goals_conceded_last5"),
            !.away_goals_scored_last5 = goals("away_goals_scored_last5"),
            !.away_goals_conceded_last5 = goals("away_goals_conceded_last5")]

\* mutant: the new record is put in front of the list (unshift for push)
SoccervistaIteration_Unshift(merged, sv, i) ==
    IF i > 0 THEN [merged EXCEPT ![i] = AssignSoccervista(merged[i], sv)]
    ELSE <<sv>> \o merged

\* The body of "for (const svMatch of soccervistaMatches)" on the accumulating
\* list; i is what findMatchingMatch returned (0: undefined).
SoccervistaIteration(merged, sv, i) ==
    IF i > 0 THEN [merged EXCEPT ![i] = AssignSoccervista(merged[i], sv)]
    ELSE Append(merged, sv)

\* The body of "for (const fsMatch of freesupertipsData)": it has no else branch.
FreesupertipsIteration(merged, fs, i) ==
    IF i > 0 THEN [merged EXCEPT ![i] = AssignFreesupertips(merged[i], fs)]
    ELSE merged

\* The first Len(flashscoreMatches) entries of mergedMatches are the caller's
\* own objects ([...flashscoreMatches] copies the array, not the records).
SharedWithCaller(flash, merged) == [i \in 1..Len(flash) |-> merged[i]]

NoRecord == BareRecord(<<>>, <<>>)
NoMerge  == [src |-> "none", found |-> 0, before |-> NoRecord, listBefore |-> <<>>]

\* what an iteration leaves in the history variable lastMerge
MergeRecord(src, merged, i) ==
    [src |-> src, found |-> i,
     before |-> IF i > 0 THEN merged[i] ELSE NoRecord,
     listBefore |-> merged]

\* mergeMatchData is entered: const mergedMatches = [...flashscoreMatches]
MergeInit ==
    /\ flashscoreMatches \in SeqsUpTo(FlashRecords, MaxPrimary)
    /\ mergedMatches = flashscoreMatches
    /\ mpc = "sv"
    /\ svMatch = NoRecord /\ fsMatch = NoRecord
    /\ lastMerge = NoMerge /\ nSecondary = 0
    /\ opc = "idle" /\ rawOdds = <<>> /\ bookmakerOddsArray = <<>> /\ bestResult = <<>>
    /\ ppc = "idle" /\ matches = <<>> /\ pIdx = 0 /\ predictions = <<>> /\ thrown = {}
    /\ epc = "idle" /\ upcomingMatches = <<>> /\ eIdx = 0 /\ enginePredictions = <<>>
    /\ store = <<>> /\ engineLog = <<>>
    /\ cpc = "idle" /\ callee = "none" /\ callArgs = <<>> /\ callResult = <<>>
    /\ now = 0 /\ lastRequestTime = 0 /\ callers = <<>> /\ sent = <<>>
    /\ isEnabled = FALSE /\ redis = "null" /\ times = 0 /\ commands = <<>> /\ cacheReturn = <<>>

MergeSoccervista ==
    /\ mpc = "sv" /\ nSecondary < MaxSecondary
    /\ \E sv \in SvRecords :
         \E i \in {findMatchingMatch(mergedMatches, sv.home_team, sv.away_team)} :
            /\ svMatch' = sv
            /\ mergedMatches' = SoccervistaIteration(mergedMatches, sv, i)
            /\ flashscoreMatches' = SharedWithCaller(flashscoreMatches, mergedMatches')
            /\ lastMerge' = MergeRecord("sv", mergedMatches, i)
    /\ nSecondary' = nSecondary + 1
    /\ UNCHANGED <<mpc, fsMatch>>
    /\ UNCHANGED <<oddsVars, predictVars, engineVars, callVars, clientVars, cacheVars>>

\* the Soccervista loop is over
SoccervistaDone ==
    /\ mpc = "sv"
    /\ mpc' = "fs"
    /\ UNCHANGED <<flashscoreMatches, mergedMatches, svMatch, fsMatch, lastMerge, nSecondary>>
    /\ UNCHANGED <<oddsVars, predictVars, engineVars, callVars, clientVars, cacheVars>>

MergeFreesupertips ==
    /\ mpc = "fs" /\ nSecondary < MaxSecondary
    /\ \E fs \in FsRecords :
         \E i \in {findMatchingMatch(mergedMatches, fs.home_team, fs.away_team)} :
            /\ fsMatch' = fs
            /\ mergedMatches' = FreesupertipsIteration(mergedMatches, fs, i)
            /\ flashscoreMatches' = SharedWithCaller(flashscoreMatches, mergedMatches')
            /\ lastMerge' = MergeRecord("fs", mergedMatches, i)
    /\ nSecondary' = nSecondary + 1
    /\ UNCHANGED <<mpc, svMatch>>
    /\ UNCHANGED <<oddsVars, predictVars, engineVars, callVars, clientVars, cacheVars>>

\* return mergedMatches
MergeReturn ==
    /\ mpc = "fs"
    /\ mpc' = "done"
    /\ UNCHANGED <<flashscoreMatches, mergedMatches, svMatch, fsMatch, lastMerge, nSecondary>>
    /\ UNCHANGED <<oddsVars, predictVars, engineVars, callVars, clientVars, cacheVars>>

-----------------------------------------------------------------------------
(***************************************************************************)
(* Odds Normalizer (normalize): quotes, margin and fair odds               *)
(***************************************************************************)
\* mutant: a price of exactly 1 counts as a price
InvalidPrice_BelowOne(decimalOdds) == ~TruthyNum(decimalOdds) \/ RLt(decimalOdds, One)
\* "!decimalOdds || decimalOdds <= 1"
InvalidPrice(decimalOdds) == ~TruthyNum(decimalOdds) \/ RLe(decimalOdds, One)

decimalToImpliedProbability(decimalOdds) ==
    IF InvalidPrice(decimalOdds) THEN Zero ELSE RDiv(One, decimalOdds)

impliedProbabilityToDecimal(probability) ==
    IF ~TruthyNum(probability) \/ RLe(probability, Zero) \/ RGt(probability, One)
    THEN Zero
    ELSE RDiv(One, probability)

\* `${numerator}/${denominator}`
Fraction(numerator, denominator) == ToString(numerator) \o "/" \o ToString(denominator)

\* the "common cases" of decimalToFractional, in the order they are tested
CommonFractions == <<<<1, 1>>, <<1, 2>>, <<2, 1>>, <<3, 1>>, <<4, 1>>, <<5, 1>>,
                     <<6, 1>>, <<10, 1>>>>
Tolerance       == R(1, 1000)
MaxDenominator  == 20

\* Math.abs(decimal - n/d)
FractionError(decimal, n, d) == RAbs(RSub(decimal, R(n, d)))

\* the common cases that are within the tolerance of decimal
CommonHits(decimal) ==
    {k \in 1..Len(CommonFractions) :
        RLt(FractionError(decimal, CommonFractions[k][1], CommonFractions[k][2]), Tolerance)}

\* the first common case that applies (or 0)
CommonCase(decimal) ==
    IF CommonHits(decimal) = {} THEN 0
    ELSE CHOOSE k \in CommonHits(decimal) : \A j \in CommonHits(decimal) : k <= j

\* the locals of the loop; left: "break" has been executed
Closest(error, numerator, denominator, left) ==
    [bestError |-> error, bestNumerator |-> numerator, bestDenominator |-> denominator,
     left |-> left]

\* "if (error < bestError) { bestError = error; ...; if (error < tolerance) break; }"
FractionTry(error, numerator, denominator, best) ==
    IF RLt(error, best.bestError)
    THEN Closest(error, numerator, denominator, RLt(error, Tolerance))
    ELSE best

\* one iteration: "const numerator = Math.round(decimal * denominator);
\* if (numerator > 0) { const error = ...; ... }"
FractionStep(decimal, denominator, best) ==
    IF best.left \/ RRound(RMul(decimal, Num(denominator))) <= 0 THEN best
    ELSE FractionTry(FractionError(decimal, RRound(RMul(decimal, Num(denominator))),
                                   denominator),
                     RRound(RMul(decimal, Num(denominator))), denominator, best)

\* The iterations first..last of "for (denominator = 1; denominator <= 20;
\* denominator++)", in order, from the locals best: the first half of them, then
\* the second half from the locals the first half has left.
RECURSIVE ClosestFraction(_, _, _, _)
ClosestFraction(decimal, first, last, best) ==
    IF first = last THEN FractionStep(decimal, first, best)
    ELSE CHOOSE closest \in
            {ClosestFraction(decimal, ((first + last) \div 2) + 1, last, half) :
                half \in {ClosestFraction(decimal, first, (first + last) \div 2, best)}} : TRUE

\* "return `${bestNumerator}/${bestDenominator}`"
FractionOfClosest(best) == Fraction(best.bestNumerator, best.bestDenominator)

\* decimalToFractional after the guard; k is the common case that applies (or 0)
FractionalOf(decimal, k) ==
    IF k > 0 THEN Fraction(CommonFractions[k][1], CommonFractions[k][2])
    ELSE FractionOfClosest(ClosestFraction(decimal, 1, MaxDenominator,
                                           Closest(FractionError(decimal, 1, 1), 1, 1, FALSE)))

\* decimal is computed once ("const decimal = decimalOdds - 1")
FractionalFrom(decimalMinusOne) ==
    CHOOSE fractional \in {FractionalOf(decimal, CommonCase(decimal)) :
                              decimal \in {decimalMinusOne}} : TRUE

decimalToFractional(decimalOdds) ==
    IF InvalidPrice(decimalOdds) THEN "0/1" ELSE FractionalFrom(RSub(decimalOdds, One))

decimalToAmerican(decimalOdds) ==
    IF InvalidPrice(decimalOdds) THEN Zero
    ELSE IF RGe(decimalOdds, Num(2))
         THEN Num(RRound(RMul(RSub(decimalOdds, One), Num(100))))
         ELSE Num(RRound(RDiv(Num(-100), RSub(decimalOdds, One))))

ZeroQuote == [decimal |-> Zero, fractional |-> "0/1", american |-> Zero,
              impliedProbability |-> Zero]
\* an optional quote (btts_yes, over_2_5, ...) that is not set
NoOdds    == [decimal |-> Undefined, fractional |-> NoString, american |-> Undefined,
              impliedProbability |-> Undefined]

\* mutant: the guard is "!decimalOdds" only
createOddsObject_NoLowerBound(decimalOdds) ==
    IF ~TruthyNum(decimalOdds) THEN ZeroQuote
    ELSE [decimal |-> decimalOdds,
          fractional |-> decimalToFractional(decimalOdds),
          american |-> decimalToAmerican(decimalOdds),
          impliedProbability |-> decimalToImpliedProbability(decimalOdds)]

createOddsObject(decimalOdds) ==
    IF InvalidPrice(decimalOdds) THEN ZeroQuote
    ELSE [decimal |-> decimalOdds,
          fractional |-> decimalToFractional(decimalOdds),
          american |-> decimalToAmerican(decimalOdds),
          impliedProbability |-> decimalToImpliedProbability(decimalOdds)]

calculateBookmakerMargin(homeOdds, drawOdds, awayOdds) ==
    IF InvalidPrice(homeOdds) \/ InvalidPrice(drawOdds) \/ InvalidPrice(awayOdds)
    THEN Zero
    ELSE RSub(RAdd(RAdd(decimalToImpliedProbability(homeOdds),
                        decimalToImpliedProbability(drawOdds)),
                   decimalToImpliedProbability(awayOdds)), One)

\* reduce((sum, prob) => sum + prob, 0)
RECURSIVE SumFrom(_, _)
SumFrom(probs, i) == IF i > Len(probs) THEN Zero ELSE RAdd(probs[i], SumFrom(probs, i + 1))

\* impliedProbabilities.map(prob => prob / total).map(impliedProbabilityToDecimal)
FairFrom(impliedProbabilities, totalImpliedProbability) ==
    [i \in 1..Len(impliedProbabilities) |->
        impliedProbabilityToDecimal(JsDiv(impliedProbabilities[i], totalImpliedProbability))]

FairOfProbabilities(impliedProbabilities) ==
    FairFrom(impliedProbabilities, SumFrom(impliedProbabilities, 1))

\* mutant: the implied probabilities are not divided by their total
calculateFairOdds_NoRescale(odds, margin) ==
    IF Len(odds) = 0 \/ RLt(margin, Zero) THEN odds
    ELSE [i \in 1..Len(odds) |->
             impliedProbabilityToDecimal(decimalToImpliedProbability(odds[i]))]

calculateFairOdds(odds, margin) ==
    IF Len(odds) = 0 \/ RLt(margin, Zero) THEN odds
    ELSE FairOfProbabilities([i \in 1..Len(odds) |-> decimalToImpliedProbability(odds[i])])


\* "if (bttsYesOdds && bttsNoOdds) { result.btts_yes = ...; result.btts_no = ... }"
OptionalQuote(odds, otherOdds) ==
    IF TruthyNum(odds) /\ TruthyNum(otherOdds) THEN createOddsObject(odds) ELSE NoOdds

\* normalizeBookmakerOdds from "const result: BookmakerOdds = {" on; fair is
\* what calculateFairOdds returned
NormalizedResult(bookmaker, homeWinOdds, drawOdds, awayWinOdds, bttsYesOdds, bttsNoOdds, over25Odds, under25Odds, margin, fair) ==
    [bookmaker |-> bookmaker,
     home_win |-> createOddsObject(homeWinOdds),
     draw |-> createOddsObject(drawOdds),
     away_win |-> createOddsObject(awayWinOdds),
     margin |-> margin,
     fair_home_win |-> createOddsObject(fair[1]),
     fair_draw |-> createOddsObject(fair[2]),
     fair_away_win |-> createOddsObject(fair[3]),
     btts_yes |-> OptionalQuote(bttsYesOdds, bttsNoOdds),
     btts_no |-> OptionalQuote(bttsNoOdds, bttsYesOdds),
     over_2_5 |-> OptionalQuote(over25Odds, under25Odds),
     under_2_5 |-> OptionalQuote(under25Odds, over25Odds)]

\* "const fairOdds = calculateFairOdds([homeWinOdds, drawOdds, awayWinOdds], margin)"
NormalizeWithMargin(bookmaker, homeWinOdds, drawOdds, awayWinOdds, bttsYesOdds, bttsNoOdds, over25Odds, under25Odds, margin) ==
    CHOOSE result \in
        {NormalizedResult(bookmaker, homeWinOdds, drawOdds, awayWinOdds, bttsYesOdds,
                          bttsNoOdds, over25Odds, under25Odds, margin, fair) :
            fair \in {calculateFairOdds(<<homeWinOdds, drawOdds, awayWinOdds>>, margin)}} : TRUE

\* "const margin = calculateBookmakerMargin(homeWinOdds, drawOdds, awayWinOdds)"
normalizeBookmakerOdds(bookmaker, homeWinOdds, drawOdds, awayWinOdds, bttsYesOdds, bttsNoOdds, over25Odds, under25Odds) ==
    CHOOSE result \in
        {NormalizeWithMargin(bookmaker, homeWinOdds, drawOdds, awayWinOdds, bttsYesOdds,
                             bttsNoOdds, over25Odds, under25Odds, margin) :
            margin \in {calculateBookmakerMargin(homeWinOdds, drawOdds, awayWinOdds)}} : TRUE

\* normalizeBookmakerOdds applied to a bookmaker's scraped record, as
\* generateFeatures calls it
NormalizeQuote(q) ==
    normalizeBookmakerOdds(q.bookmaker, q.home_win_odds, q.draw_odds, q.away_win_odds,
                           q.btts_yes_odds, q.btts_no_odds, q.over_2_5_odds, q.under_2_5_odds)

-----------------------------------------------------------------------------
(***************************************************************************)
(* Best-Price Selector (normalize): findBestOdds                           *)
(***************************************************************************)
BestEntry(bookmaker, odds) == [bookmaker |-> bookmaker, odds |-> odds]
\* an entry of the snapshot that is not set
NoBest == [bookmaker |-> NoString, odds |-> NoOdds]

\* both quotes of an optional market are set
HasBoth(quote, otherQuote) == quote # NoOdds /\ otherQuote # NoOdds

FirstOptional(bookmaker, quote, otherQuote) ==
    IF HasBoth(quote, otherQuote) THEN BestEntry(bookmaker, quote) ELSE NoBest

\* "Initialize with first bookmaker's odds"
FirstBest(first) ==
    [best_home_win |-> BestEntry(first.bookmaker, first.home_win),
     best_draw |-> BestEntry(first.bookmaker, first.draw),
     best_away_win |-> BestEntry(first.bookmaker, first.away_win),
     best_btts_yes |-> FirstOptional(first.bookmaker, first.btts_yes, first.btts_no),
     best_btts_no |-> FirstOptional(first.bookmaker, first.btts_no, first.btts_yes),
     best_over_2_5 |-> FirstOptional(first.bookmaker, first.over_2_5, first.under_2_5),
     best_under_2_5 |-> FirstOptional(first.bookmaker, first.under_2_5, first.over_2_5)]

\* mutant: >= for >
Better_LastWins(best, bookmaker, quote) ==
    IF RGe(quote.decimal, best.odds.decimal) THEN BestEntry(bookmaker, quote) ELSE best

\* "if (bookmakerOdds.x.decimal > result.best_x.odds.decimal) result.best_x = ..."
Better(best, bookmaker, quote) ==
    IF RGt(quote.decimal, best.odds.decimal) THEN BestEntry(bookmaker, quote) ELSE best

\* "if (!result.best_x || bookmakerOdds.x.decimal > result.best_x.odds.decimal)"
\* inside "if (bookmakerOdds.x && bookmakerOdds.y)"
BetterOptional(best, bookmaker, quote, otherQuote) ==
    IF ~HasBoth(quote, otherQuote) THEN best
    ELSE IF best = NoBest THEN BestEntry(bookmaker, quote)
    ELSE Better(best, bookmaker, quote)

\* the body of "for (let i = 1; i < bookmakerOddsArray.length; i++)"
CompareWith(result, bookmakerOdds) ==
    [best_home_win |-> Better(result.best_home_win, bookmakerOdds.bookmaker,
                              bookmakerOdds.home_win),
     best_draw |-> Better(result.best_draw, bookmakerOdds.bookmaker, bookmakerOdds.draw),
     best_away_win |-> Better(result.best_away_win, bookmakerOdds.bookmaker,
                              bookmakerOdds.away_win),
     best_btts_yes |-> BetterOptional(result.best_btts_yes, bookmakerOdds.bookmaker,
                                      bookmakerOdds.btts_yes, bookmakerOdds.btts_no),
     best_btts_no |-> BetterOptional(result.best_btts_no, bookmakerOdds.bookmaker,
                                     bookmakerOdds.btts_no, bookmakerOdds.btts_yes),
     best_over_2_5 |-> BetterOptional(result.best_over_2_5, bookmakerOdds.bookmaker,
                                      bookmakerOdds.over_2_5, bookmakerOdds.under_2_5),
     best_under_2_5 |-> BetterOptional(result.best_under_2_5, bookmakerOdds.bookmaker,
                                       bookmakerOdds.under_2_5, bookmakerOdds.over_2_5)]

RECURSIVE CompareFrom(_, _, _)
CompareFrom(result, array, i) ==
    IF i > Len(array) THEN result
    ELSE CompareFrom(CompareWith(result, array[i]), array, i + 1)

NoSnapshot == [best_home_win |-> NoBest, best_draw |-> NoBest, best_away_win |-> NoBest,
               best_btts_yes |-> NoBest, best_btts_no |-> NoBest,
               best_over_2_5 |-> NoBest, best_under_2_5 |-> NoBest]

\* outcome of a call: a returned value or a thrown Error
Return(value) == [threw |-> FALSE, error |-> "", value |-> value]
Throw(error)  == [threw |-> TRUE, error |-> error, value |-> NoSnapshot]
NotCalled     == [threw |-> FALSE, error |-> "not called", value |-> NoSnapshot]

\* mutant: the empty list is answered with an empty snapshot
findBestOdds_NoGuard(array) ==
    IF Len(array) = 0 THEN Return(NoSnapshot)
    ELSE Return(CompareFrom(FirstBest(array[1]), array, 2))

findBestOdds(array) ==
    IF Len(array) = 0 THEN Throw("No bookmaker odds provided")
    ELSE Return(CompareFrom(FirstBest(array[1]), array, 2))

\* ---- inputs ----
MaxMarkets == 2

Bookmakers == {"Mozzart", "Betika", "SportPesa"}

RawQuote(bookmaker, h, d, a, by, bn, ov, un) ==
    [bookmaker |-> bookmaker, home_win_odds |-> h, draw_odds |-> d, away_win_odds |-> a,
     btts_yes_odds |-> by, btts_no_odds |-> bn, over_2_5_odds |-> ov, under_2_5_odds |-> un]

\* Prices a scrape can deliver: missing, unparsable, zero, at most 1, valid.
Prices == {Undefined, NaN, Zero, R(1, 2), One, R(3, 2), Num(2), Num(4)}
\* (yes, no) and (over, under) pairs: missing, both valid, one missing, one at most 1
BttsPairs == {<<Undefined, Undefined>>, <<R(9, 5), Num(2)>>, <<R(9, 5), Undefined>>,
              <<R(1, 2), Num(2)>>}
OverUnderPairs == {<<Undefined, Undefined>>, <<R(19, 10), R(19, 10)>>, <<Zero, Num(2)>>}

\* every quote of one bookmaker over Prices
AllQuotes ==
    {RawQuote("Mozzart", h, d, a, b[1], b[2], o[1], o[2]) :
        h \in Prices, d \in Prices, a \in Prices, b \in BttsPairs, o \in OverUnderPairs}

\* quotes of several bookmakers: equal and different prices, optional markets
\* offered by some bookmakers only, an invalid price, no price at all
Catalogue ==
    {<<Num(2), Num(3), Num(4), R(9, 5), Num(2), R(19, 10), R(19, 10)>>,
     <<Num(2), R(7, 2), Num(3), Undefined, Undefined, Undefined, Undefined>>,
     <<R(5, 2), Num(3), Num(3), Num(2), R(9, 5), Undefined, Undefined>>,
     <<Zero, Num(3), Num(4), Undefined, Undefined, R(17, 10), R(21, 10)>>,
     <<Undefined, Undefined, Undefined, Undefined, Undefined, Undefined, Undefined>>}
CatalogueQuotes ==
    {RawQuote(b, c[1], c[2], c[3], c[4], c[5], c[6], c[7]) : b \in Bookmakers, c \in Catalogue}

\* ---- one call of normalizeBookmakerOdds per scraped quote, then findBestOdds ----
\* a single bookmaker's quote, any prices
NormalizeInit ==
    /\ rawOdds \in [1..1 -> AllQuotes]
    /\ opc = "input" /\ bookmakerOddsArray = <<>> /\ bestResult = NotCalled
    /\ mpc = "idle" /\ flashscoreMatches = <<>> /\ mergedMatches = <<>>
    /\ svMatch = NoRecord /\ fsMatch = NoRecord /\ lastMerge = NoMerge /\ nSecondary = 0
    /\ ppc = "idle" /\ matches = <<>> /\ pIdx = 0 /\ predictions = <<>> /\ thrown = {}
    /\ epc = "idle" /\ upcomingMatches = <<>> /\ eIdx = 0 /\ enginePredictions = <<>>
    /\ store = <<>> /\ engineLog = <<>>
    /\ cpc = "idle" /\ callee = "none" /\ callArgs = <<>> /\ callResult = <<>>
    /\ now = 0 /\ lastRequestTime = 0 /\ callers = <<>> /\ sent = <<>>
    /\ isEnabled = FALSE /\ redis = "null" /\ times = 0 /\ commands = <<>> /\ cacheReturn = <<>>

\* the quotes of up to MaxMarkets bookmakers
BestInit ==
    /\ rawOdds \in SeqsUpTo(CatalogueQuotes, MaxMarkets)
    /\ opc = "input" /\ bookmakerOddsArray = <<>> /\ bestResult = NotCalled
    /\ mpc = "idle" /\ flashscoreMatches = <<>> /\ mergedMatches = <<>>
    /\ svMatch = NoRecord /\ fsMatch = NoRecord /\ lastMerge = NoMerge /\ nSecondary = 0
    /\ ppc = "idle" /\ matches = <<>> /\ pIdx = 0 /\ predictions = <<>> /\ thrown = {}
    /\ epc = "idle" /\ upcomingMatches = <<>> /\ eIdx = 0 /\ enginePredictions = <<>>
    /\ store = <<>> /\ engineLog = <<>>
    /\ cpc = "idle" /\ callee = "none" /\ callArgs = <<>> /\ callResult = <<>>
    /\ now = 0 /\ lastRequestTime = 0 /\ callers = <<>> /\ sent = <<>>
    /\ isEnabled = FALSE /\ redis = "null" /\ times = 0 /\ commands = <<>> /\ cacheReturn = <<>>

NormalizeOdds ==
    /\ opc = "input"
    /\ bookmakerOddsArray' = [i \in 1..Len(rawOdds) |-> NormalizeQuote(rawOdds[i])]
    /\ opc' = "normalized"
    /\ UNCHANGED <<rawOdds, bestResult>>
    /\ UNCHANGED <<mergeVars, predictVars, engineVars, callVars, clientVars, cacheVars>>

FindBestOdds ==
    /\ opc = "normalized"
    /\ bestResult' = findBestOdds(bookmakerOddsArray)
    /\ opc' = IF bestResult'.threw THEN "error" ELSE "best"
    /\ UNCHANGED <<rawOdds, bookmakerOddsArray>>
    /\ UNCHANGED <<mergeVars, predictVars, engineVars, callVars, clientVars, cacheVars>>

-----------------------------------------------------------------------------
(***************************************************************************)
(* Feature Builder (scheduler/index.ts): generateFeatures                  *)
(***************************************************************************)
\* an entry of a bookmaker's odds feed
OddsEntry(home, away, c) ==
    [home_team |-> home, away_team |-> away, bookmaker |-> NoString,
     home_win_odds |-> c[1], draw_odds |-> c[2], away_win_odds |-> c[3],
     btts_yes_odds |-> c[4], btts_no_odds |-> c[5],
     over_2_5_odds |-> c[6], under_2_5_odds |-> c[7]]

\* oddsArray.find(o => isSimilarTeamName(o.home_team, homeTeam) && ...), as the
\* sequence of what was found (empty: undefined)
findMatchingOdds(oddsArray, homeTeam, awayTeam) ==
    IF findMatchingMatch(oddsArray, homeTeam, awayTeam) = 0 THEN <<>>
    ELSE <<oddsArray[findMatchingMatch(oddsArray, homeTeam, awayTeam)]>>

\* "if (matchXOdds) bookmakerOdds.push(normalizeBookmakerOdds('X', ...))"
PushNormalized(bookmaker, found) ==
    [i \in 1..Len(found) |-> NormalizeQuote([found[i] EXCEPT !.bookmaker = bookmaker])]

\* the bookmakerOdds array of a match
BookmakerOddsOf(match, feeds) ==
    PushNormalized("Mozzart",
                   findMatchingOdds(feeds.Mozzart, match.home_team, match.away_team))
    \o PushNormalized("Betika",
                      findMatchingOdds(feeds.Betika, match.home_team, match.away_team))
    \o PushNormalized("SportPesa",
                      findMatchingOdds(feeds.SportPesa, match.home_team, match.away_team))

\* "let bestOdds = { best_home_win: { bookmaker: '', odds: { decimal: 0 } } }"
PlaceholderBestOdds ==
    [NoSnapshot EXCEPT
        !.best_home_win = [bookmaker |-> "", odds |-> [NoOdds EXCEPT !.decimal = Zero]]]

BestOddsOf(bookmakerOdds) ==
    IF Len(bookmakerOdds) > 0 THEN findBestOdds(bookmakerOdds).value
    ELSE PlaceholderBestOdds

RECURSIVE calculateFormPointsFrom(_, _)
calculateFormPointsFrom(form, i) ==
    IF i > Len(form) THEN 0
    ELSE (IF form[i] = "W" THEN 3 ELSE IF form[i] = "D" THEN 1 ELSE 0)
         + calculateFormPointsFrom(form, i + 1)

calculateFormPoints(form) ==
    IF ~form.def \/ Len(form.v) = 0 THEN 0 ELSE calculateFormPointsFrom(form.v, 1)

\* the callback of reduce in countH2HResults: 1 when the match counts
H2HCounts(match, isHomeTeam, isAwayTeam, result) ==
    IF ~isHomeTeam /\ ~isAwayTeam THEN 0
    ELSE IF result = "draw" /\ match.home_score = match.away_score THEN 1
    ELSE IF result = "win" /\ isHomeTeam /\ match.home_score > match.away_score THEN 1
    ELSE IF result = "win" /\ isAwayTeam /\ match.away_score > match.home_score THEN 1
    ELSE IF result = "loss" /\ isHomeTeam /\ match.home_score < match.away_score THEN 1
    ELSE IF result = "loss" /\ isAwayTeam /\ match.away_score < match.home_score THEN 1
    ELSE 0

RECURSIVE countH2HResultsFrom(_, _, _, _)
countH2HResultsFrom(h2hMatches, teamName, result, i) ==
    IF i > Len(h2hMatches) THEN 0
    ELSE H2HCounts(h2hMatches[i], Similar[<<h2hMatches[i].home_team, teamName>>],
                   Similar[<<h2hMatches[i].away_team, teamName>>], result)
         + countH2HResultsFrom(h2hMatches, teamName, result, i + 1)

countH2HResults(h2hMatches, teamName, result) ==
    countH2HResultsFrom(h2hMatches, teamName, result, 1)

\* the body of the loop of calculateH2HGoalsAvg: <<goals added, matches added>>
H2HGoalsOf(match, teamName) ==
    IF Similar[<<match.home_team, teamName>>] THEN <<match.home_score, 1>>
    ELSE IF Similar[<<match.away_team, teamName>>] THEN <<match.away_score, 1>>
    ELSE <<0, 0>>

\* the loop of calculateH2HGoalsAvg: <<totalGoals, matchCount>>
RECURSIVE H2HGoalsTotal(_, _, _)
H2HGoalsTotal(h2hMatches, teamName, i) ==
    IF i > Len(h2hMatches) THEN <<0, 0>>
    ELSE <<H2HGoalsOf(h2hMatches[i], teamName)[1]
              + H2HGoalsTotal(h2hMatches, teamName, i + 1)[1],
           H2HGoalsOf(h2hMatches[i], teamName)[2]
              + H2HGoalsTotal(h2hMatches, teamName, i + 1)[2]>>

H2HGoalsAvgOf(total) == IF total[2] > 0 THEN R(total[1], total[2]) ELSE Zero

calculateH2HGoalsAvg(h2hMatches, teamName) ==
    H2HGoalsAvgOf(H2HGoalsTotal(h2hMatches, teamName, 1))

\* _.meanBy(array, b => b[quote].impliedProbability)
RECURSIVE SumImplied(_, _, _)
SumImplied(array, quote, i) ==
    IF i > Len(array) THEN Zero
    ELSE RAdd(array[i][quote].impliedProbability, SumImplied(array, quote, i + 1))

\* mutant: the sum is not divided by the number of bookmakers
MeanImplied_Sum(array, quote) == SumImplied(array, quote, 1)
MeanImplied(array, quote) ==
    IF Len(array) > 0 THEN RDiv(SumImplied(array, quote, 1), Num(Len(array))) ELSE Zero

\* bookmakerOdds.filter(b => b[quote])
Offered(array, quote) == SelectSeq(array, LAMBDA b : b[quote] # NoOdds)

\* "bookmakerOdds.some(b => b.x) ? _.meanBy(bookmakerOdds.filter(b => b.x), ...) : undefined"
MeanOffered(offered, quote) ==
    IF Len(offered) > 0 THEN MeanImplied(offered, quote) ELSE Undefined

\* "x || fallback" and "x || 0" on a number slot
OrElse(x, fallback) == IF TruthyNum(x) THEN x ELSE fallback
OrZero(x) == OrElse(x, Zero)
\* "x || []" on an array slot
OrEmpty(x) == IF TruthyArr(x) THEN x.v ELSE <<>>

\* the features object of a match
FeaturesOf(match, h2hMatches, bookmakerOdds) ==
    [home_form_points |-> calculateFormPoints(Arr(OrEmpty(match.home_form))),
     away_form_points |-> calculateFormPoints(Arr(OrEmpty(match.away_form))),
     home_goals_scored_avg |-> RDiv(OrZero(match.home_goals_scored_last5), Num(5)),
     home_goals_conceded_avg |-> RDiv(OrZero(match.home_goals_conceded_last5), Num(5)),
     away_goals_scored_avg |-> RDiv(OrZero(match.away_goals_scored_last5), Num(5)),
     away_goals_conceded_avg |-> RDiv(OrZero(match.away_goals_conceded_last5), Num(5)),
     h2h_home_wins |-> countH2HResults(h2hMatches, match.home_team, "win"),
     h2h_draws |-> countH2HResults(h2hMatches, match.home_team, "draw"),
     h2h_away_wins |-> countH2HResults(h2hMatches, match.home_team, "loss"),
     h2h_home_goals_avg |-> calculateH2HGoalsAvg(h2hMatches, match.home_team),
     h2h_away_goals_avg |-> calculateH2HGoalsAvg(h2hMatches, match.away_team),
     home_advantage_factor |-> R(12, 10),
     market_implied_prob_home |-> MeanImplied(bookmakerOdds, "fair_home_win"),
     market_implied_prob_draw |-> MeanImplied(bookmakerOdds, "fair_draw"),
     market_implied_prob_away |-> MeanImplied(bookmakerOdds, "fair_away_win"),
     market_implied_prob_btts_yes |-> MeanOffered(Offered(bookmakerOdds, "btts_yes"), "btts_yes"),
     market_implied_prob_over_2_5 |-> MeanOffered(Offered(bookmakerOdds, "over_2_5"), "over_2_5")]

\* dayjs(kickoff_time).unix(): the present time for undefined, NaN for a string
\* that is no date; times are counted in days from the present one
DayjsUnix(kickoff_time) ==
    IF kickoff_time = NoString THEN Num(1)
    ELSE IF kickoff_time \in {"2024-05-04 15:00", "2024-05-05 17:30"} THEN Num(2)
    ELSE NaN

\* "matches.push({ match_id: ..., home_team: homeTeam, ..., features })"; the
\* match_id (a slug of date and team names) is the pair of team names here
MatchFeaturesOf(match, h2hMatches, bookmakerOdds) ==
    [match_id |-> <<match.home_team, match.away_team>>,
     timestamp |-> OrElse(match.kickoff_timestamp, DayjsUnix(match.kickoff_time)),
     home_team |-> match.home_team,
     away_team |-> match.away_team,
     h2h_matches |-> h2hMatches,
     bookmaker_odds |-> bookmakerOdds,
     best_odds |-> BestOddsOf(bookmakerOdds),
     features |-> FeaturesOf(match, h2hMatches, bookmakerOdds)]

\* generateFeatures from "for (const match of mergedMatches)" on
generateFeatures(merged, feeds) ==
    [i \in 1..Len(merged) |->
        MatchFeaturesOf(merged[i], OrEmpty(merged[i].h2h_matches),
                        BookmakerOddsOf(merged[i], feeds))]

-----------------------------------------------------------------------------
(***************************************************************************)
(* Scoring, mode (a) (model/predict): predictMatches                       *)
(***************************************************************************)
EDGE_THRESHOLD       == R(8, 100)
CONFIDENCE_THRESHOLD == R(65, 100)

\* mutant: the upper end only, Math.min(x, hi)
Clamp_Above(x, lo, hi) == RMin(x, hi)
\* Math.min(Math.max(x, lo), hi)
Clamp(x, lo, hi) == RMin(RMax(x, lo), hi)
\* "x / 1.5"
Strength(avg) == RDiv(avg, R(3, 2))

\* predict1X2 from "Ensure probabilities are in valid range" on
Normalize1X2(homeProb, drawProb, awayProb) ==
    [home |-> RDiv(homeProb, RAdd(RAdd(homeProb, drawProb), awayProb)),
     draw |-> RDiv(drawProb, RAdd(RAdd(homeProb, drawProb), awayProb)),
     away |-> RDiv(awayProb, RAdd(RAdd(homeProb, drawProb), awayProb))]

\* predict1X2 from "Adjust draw probability" on
Finish1X2(homeProb, drawProb, awayProb) ==
    CHOOSE prob \in
        {Normalize1X2(home, draw, away) :
            home \in {Clamp(homeProb, R(5, 100), R(9, 10))},
            draw \in {Clamp(RAdd(drawProb,
                                 RMul(RSub(One, RAbs(RSub(homeProb, awayProb))), R(1, 10))),
                            R(5, 100), R(6, 10))},
            away \in {Clamp(awayProb, R(5, 100), R(9, 10))}} : TRUE

\* homeGoalPower - awayGoalPower
GoalPowerDiff(f) ==
    RSub(RMul(Strength(f.home_goals_scored_avg), Strength(f.away_goals_conceded_avg)),
         RMul(Strength(f.away_goals_scored_avg), Strength(f.home_goals_conceded_avg)))

\* "(h2h_home_wins + h2h_draws + h2h_away_wins || 1)"
H2HTotalOrOne(f) ==
    IF f.h2h_home_wins + f.h2h_draws + f.h2h_away_wins # 0
    THEN f.h2h_home_wins + f.h2h_draws + f.h2h_away_wins ELSE 1

\* what the form, goals, head-to-head and home-advantage adjustments add to
\* homeProb and take from awayProb
Shift1X2(f) ==
    RAdd(RAdd(RMul(RSub(R(f.home_form_points, 15), R(f.away_form_points, 15)), R(1, 10)),
              RMul(GoalPowerDiff(f), R(5, 100))),
         RAdd(RMul(R(f.h2h_home_wins - f.h2h_away_wins, H2HTotalOrOne(f)), R(5, 100)),
              R(5, 100)))

predict1X2(match) ==
    CHOOSE prob \in
        {Finish1X2(RAdd(OrElse(match.features.market_implied_prob_home, R(45, 100)), shift),
                   OrElse(match.features.market_implied_prob_draw, R(25, 100)),
                   RSub(OrElse(match.features.market_implied_prob_away, R(30, 100)), shift)) :
            shift \in {Shift1X2(match.features)}} : TRUE

\* h2h_matches.reduce((count, m) => (m.home_score > 0 && m.away_score > 0) ? count + 1 : count, 0)
RECURSIVE BothScored(_, _)
BothScored(h2h, i) ==
    IF i > Len(h2h) THEN 0
    ELSE (IF h2h[i].home_score > 0 /\ h2h[i].away_score > 0 THEN 1 ELSE 0)
         + BothScored(h2h, i + 1)

\* h2h_matches.reduce((sum, m) => sum + m.home_score + m.away_score, 0)
RECURSIVE TotalGoals(_, _)
TotalGoals(h2h, i) ==
    IF i > Len(h2h) THEN 0
    ELSE h2h[i].home_score + h2h[i].away_score + TotalGoals(h2h, i + 1)

\* "(match.h2h_matches.length || 1)"
LengthOrOne(h2h) == IF Len(h2h) # 0 THEN Len(h2h) ELSE 1

YesNo(bttsYesProb) == [yes |-> bttsYesProb, no |-> RSub(One, bttsYesProb)]

predictBTTS(match) ==
    YesNo(Clamp(RDiv(RAdd(RAdd(OrElse(match.features.market_implied_prob_btts_yes, R(55, 100)),
                               RMul(RAdd(RMul(Strength(match.features.home_goals_scored_avg),
                                              Strength(match.features.away_goals_conceded_avg)),
                                         RMul(Strength(match.features.away_goals_scored_avg),
                                              Strength(match.features.home_goals_conceded_avg))),
                                    R(1, 10))),
                          R(BothScored(match.h2h_matches, 1), LengthOrOne(match.h2h_matches))),
                     Num(2)),
                R(1, 10), R(9, 10)))

\* totalExpectedGoals
ExpectedGoals(f) ==
    RAdd(RMul(RMul(f.home_goals_scored_avg, f.away_goals_conceded_avg),
              f.home_advantage_factor),
         RMul(f.away_goals_scored_avg, f.home_goals_conceded_avg))

\* "if (totalExpectedGoals > 2.5) overProb += ...; else overProb -= ...;"
OverAdjusted(overProb, totalExpectedGoals) ==
    IF RGt(totalExpectedGoals, R(5, 2))
    THEN RAdd(overProb, RMul(RSub(totalExpectedGoals, R(5, 2)), R(1, 10)))
    ELSE RSub(overProb, RMul(RSub(R(5, 2), totalExpectedGoals), R(1, 10)))

\* "(h2hAvgGoals > 2.5 ? 0.6 : 0.4)"
H2HOverShare(h2h) ==
    IF RGt(R(TotalGoals(h2h, 1), LengthOrOne(h2h)), R(5, 2)) THEN R(6, 10) ELSE R(4, 10)

OverUnder(overProb, totalExpectedGoals) ==
    [over_2_5 |-> overProb, under_2_5 |-> RSub(One, overProb),
     expected_goals |-> totalExpectedGoals]

predictOverUnder(match) ==
    OverUnder(Clamp(RDiv(RAdd(OverAdjusted(OrElse(match.features.market_implied_prob_over_2_5,
                                                  R(1, 2)),
                                           ExpectedGoals(match.features)),
                              H2HOverShare(match.h2h_matches)),
                         Num(2)),
                    R(1, 10), R(9, 10)),
              ExpectedGoals(match.features))

\* the locals bestBet, bestBookmaker, bestOdds, confidence, ev, edge, maxEdge
\* before the first gate; threw: the iteration has ended in the catch block
NoBet == [bestBet |-> "", bestBookmaker |-> "", bestOdds |-> Zero, confidence |-> Zero,
          ev |-> Zero, edge |-> Zero, maxEdge |-> Zero, threw |-> FALSE]

\* the assignments inside "if (xEdge > maxEdge) { ... }"
Taken(bet, best, prob, edgeValue) ==
    [bestBet |-> bet, bestBookmaker |-> best.bookmaker, bestOdds |-> best.odds.decimal,
     confidence |-> prob, ev |-> RSub(RMul(prob, best.odds.decimal), One),
     edge |-> edgeValue, maxEdge |-> edgeValue, threw |-> FALSE]

\* mutant: the confidence bar is not tested
Gate_EdgeOnly(locals, bet, edgeValue, prob, best) ==
    IF locals.threw THEN locals
    ELSE IF RGt(edgeValue, EDGE_THRESHOLD)
         THEN IF best = NoBest THEN [locals EXCEPT !.threw = TRUE]
              ELSE IF RGt(edgeValue, locals.maxEdge) THEN Taken(bet, best, prob, edgeValue)
              ELSE locals
         ELSE locals

\* mutant: a market that clears both bars replaces the one taken before
Gate_LastWins(locals, bet, edgeValue, prob, best) ==
    IF locals.threw THEN locals
    ELSE IF RGt(edgeValue, EDGE_THRESHOLD) /\ RGt(prob, CONFIDENCE_THRESHOLD)
         THEN IF best = NoBest THEN [locals EXCEPT !.threw = TRUE]
              ELSE Taken(bet, best, prob, edgeValue)
         ELSE locals

\* "if (xEdge > EDGE_THRESHOLD && prob > CONFIDENCE_THRESHOLD) { const xEV = prob *
\* match.best_odds.best_x.odds.decimal - 1; if (xEdge > maxEdge) {...} }": reading
\* .odds of an entry that is not set is a TypeError
Gate(locals, bet, edgeValue, prob, best) ==
    IF locals.threw THEN locals
    ELSE IF RGt(edgeValue, EDGE_THRESHOLD) /\ RGt(prob, CONFIDENCE_THRESHOLD)
         THEN IF best = NoBest THEN [locals EXCEPT !.threw = TRUE]
              ELSE IF RGt(edgeValue, locals.maxEdge) THEN Taken(bet, best, prob, edgeValue)
              ELSE locals
         ELSE locals

\* "if (match.features.market_implied_prob_x !== undefined && match.best_odds.best_x)"
OptionalGate(locals, bet, marketProb, prob, best) ==
    IF locals.threw \/ marketProb = Undefined \/ best = NoBest THEN locals
    ELSE Gate(locals, bet, RSub(prob, marketProb), prob, best)

\* the five gates in the order of the code
Gates(match, prob1X2, probBTTS, probOverUnder) ==
    OptionalGate(
      OptionalGate(
        Gate(Gate(Gate(NoBet, "1",
                       RSub(prob1X2.home, match.features.market_implied_prob_home),
                       prob1X2.home, match.best_odds.best_home_win),
                  "X", RSub(prob1X2.draw, match.features.market_implied_prob_draw),
                  prob1X2.draw, match.best_odds.best_draw),
             "2", RSub(prob1X2.away, match.features.market_implied_prob_away),
             prob1X2.away, match.best_odds.best_away_win),
        "BTTS Yes", match.features.market_implied_prob_btts_yes, probBTTS.yes,
        match.best_odds.best_btts_yes),
      "Over 2.5", match.features.market_implied_prob_over_2_5, probOverUnder.over_2_5,
      match.best_odds.best_over_2_5)

\* prediction.recommendation not set
NoRecommendation == [bet |-> NoString, bookmaker |-> NoString, odds |-> Undefined,
                     confidence |-> Undefined, ev |-> Undefined, edge |-> Undefined]

\* "if (bestBet && bestBookmaker && bestOdds > 0 && confidence > 0)"
RecommendationOf(locals) ==
    IF /\ TruthyStr(locals.bestBet) /\ TruthyStr(locals.bestBookmaker)
       /\ RGt(locals.bestOdds, Zero) /\ RGt(locals.confidence, Zero)
    THEN [bet |-> locals.bestBet, bookmaker |-> locals.bestBookmaker,
          odds |-> locals.bestOdds, confidence |-> locals.confidence,
          ev |-> locals.ev, edge |-> locals.edge]
    ELSE NoRecommendation

\* new Date(timestamp * 1000).toISOString(): a RangeError for an invalid time
ISOStringThrows(timestamp) == ~IsNum(timestamp)
ISOString(timestamp) == <<"ISO", timestamp.n>>

\* the PredictionResult of an iteration whose gates left locals
PredictionResult(match, prob1X2, probBTTS, probOverUnder, locals) ==
    [match_id |-> match.match_id,
     home_team |-> match.home_team, away_team |-> match.away_team,
     kickoff_time |-> ISOString(match.timestamp),
     model_prob_1x2 |-> prob1X2, model_prob_btts |-> probBTTS,
     model_prob_over_under |-> probOverUnder,
     best_bookmaker |-> locals.bestBookmaker, best_odds |-> locals.bestOdds,
     raw_features |-> match.features,
     recommendation |-> RecommendationOf(locals)]

\* the try block of an iteration: <<>> when it threw, <<prediction>> otherwise
TryWith(match, prob1X2, probBTTS, probOverUnder, locals) ==
    IF locals.threw \/ ISOStringThrows(match.timestamp) THEN <<>>
    ELSE <<PredictionResult(match, prob1X2, probBTTS, probOverUnder, locals)>>

\* the locals after the gates, then the prediction object
TryScored(match, prob1X2, probBTTS, probOverUnder) ==
    CHOOSE try \in {TryWith(match, prob1X2, probBTTS, probOverUnder, locals) :
                      locals \in {Gates(match, prob1X2, probBTTS, probOverUnder)}} : TRUE

\* "const prob1X2 = predict1X2(match); const probBTTS = predictBTTS(match);
\* const probOverUnder = predictOverUnder(match);", then the rest of the try block
TryPredict(match) ==
    CHOOSE try \in {TryScored(match, prob1X2, probBTTS, probOverUnder) :
                      prob1X2 \in {predict1X2(match)},
                      probBTTS \in {predictBTTS(match)},
                      probOverUnder \in {predictOverUnder(match)}} : TRUE

\* mutant: the catch block is outside the loop, an exception ends the loop
LoopStep_Abort(loop, try, length) ==
    IF try = <<>>
    THEN [predictions |-> loop.predictions, thrown |-> loop.thrown \cup {loop.pIdx + 1},
          pIdx |-> length]
    ELSE [predictions |-> loop.predictions \o try, thrown |-> loop.thrown,
          pIdx |-> loop.pIdx + 1]

\* one iteration of "for (const match of matches) { try {...} catch {...} }":
\* predictions.push(prediction), or the catch block (which only logs)
LoopStep(loop, try, length) ==
    [predictions |-> loop.predictions \o try,
     thrown |-> IF try = <<>> THEN loop.thrown \cup {loop.pIdx + 1} ELSE loop.thrown,
     pIdx |-> loop.pIdx + 1]

\* ---- inputs ----
MaxBatch == 3

Forms == {<<Arr(<<"W", "W", "W", "W", "W">>), Arr(<<"L", "L", "L", "L", "L">>)>>,
          <<Arr(<<"L", "L", "L", "L", "L">>), Arr(<<"W", "W", "W", "W", "W">>)>>,
          <<NoArray, NoArray>>,
          <<Arr(<<"W", "D", "L", "W", "D">>), Arr(<<"D", "D", "W">>)>>}
\* goals in the last 5: home scored, home conceded, away scored, away conceded
Goals == {<<Undefined, Undefined, Undefined, Undefined>>,
          <<Num(8), Num(6), Num(7), Num(5)>>,
          <<Num(18), Num(2), Num(2), Num(18)>>,
          <<Num(2), Num(18), Num(18), Num(2)>>,
          <<Num(12), Num(10), Num(11), Num(12)>>}
H2HLists(home, away) ==
    {NoArray,
     Arr(<<H2H(home, away, 3, 1), H2H(away, home, 0, 2)>>),
     Arr(<<H2H(home, away, 0, 2), H2H(away, home, 3, 1)>>),
     Arr(<<H2H(home, away, 0, 0), H2H(home, away, 1, 1)>>),
     Arr(<<H2H(home, away, 3, 2), H2H(away, home, 2, 2), H2H(home, away, 1, 4)>>)}
\* a kickoff time the scraper parsed, and a time cell without hours and minutes
\* (kickoff_time "", kickoff_timestamp 0)
Kickoffs == {<<"2024-05-04 15:00", Undefined>>, <<"", Zero>>}

\* a merged match record with its statistics
StatsRecord(home, away, form, goals, h2h, kickoff) ==
    [BareRecord(home, away) EXCEPT
        !.home_form = form[1], !.away_form = form[2],
        !.home_goals_scored_last5 = goals[1], !.home_goals_conceded_last5 = goals[2],
        !.away_goals_scored_last5 = goals[3], !.away_goals_conceded_last5 = goals[4],
        !.h2h_matches = h2h,
        !.kickoff_time = kickoff[1], !.kickoff_timestamp = kickoff[2]]

ScoreMatches ==
    {StatsRecord(Ars, Che, form, goals, h2h, kickoff) :
        form \in Forms, goals \in Goals, h2h \in H2HLists(Ars, Che), kickoff \in Kickoffs}

Feeds(mozzart, betika, sportpesa) ==
    [Mozzart |-> mozzart, Betika |-> betika, SportPesa |-> sportpesa]
NoPrices == <<Undefined, Undefined, Undefined, Undefined, Undefined, Undefined, Undefined>>
\* the bookmakers' feeds for Arsenal v Chelsea: no odds, one bookmaker, two
\* bookmakers (the second with a negative margin), invalid prices only, a home
\* favourite with over/under, an away favourite with BTTS, long prices, very
\* long prices for BTTS yes and over 2.5
ScoreFeeds ==
    {Feeds(<<>>, <<>>, <<>>),
     Feeds(<<OddsEntry(ArsFC, Che, <<Num(2), Num(3), R(24, 5), R(9, 5), Num(2),
                                     R(15, 8), R(15, 8)>>)>>, <<>>, <<>>),
     Feeds(<<OddsEntry(ArsFC, Che, <<Num(2), Num(3), R(24, 5), R(9, 5), Num(2),
                                     R(15, 8), R(15, 8)>>)>>, <<>>,
           <<OddsEntry(Lee, Eve, NoPrices),
             OddsEntry(Ars, Che, <<R(5, 2), Num(3), Num(4), Undefined, Undefined,
                                   Undefined, Undefined>>)>>),
     Feeds(<<>>, <<OddsEntry(Ars, Che, <<Zero, Undefined, One, Undefined, Undefined,
                                         Undefined, Undefined>>)>>, <<>>),
     Feeds(<<OddsEntry(Ars, Che, <<R(4, 3), Num(4), Num(8), Undefined, Undefined,
                                   R(3, 2), R(5, 2)>>)>>, <<>>, <<>>),
     Feeds(<<>>, <<>>, <<OddsEntry(Ars, Che, <<Num(8), Num(4), R(4, 3), Num(3), R(5, 4),
                                               Undefined, Undefined>>)>>),
     Feeds(<<>>, <<OddsEntry(Ars, Che, <<Num(3), Num(3), Num(3), Num(3), R(5, 4),
                                         Num(3), R(5, 4)>>)>>, <<>>),
     Feeds(<<>>, <<>>, <<OddsEntry(Ars, Che, <<Num(3), Num(3), Num(3), Num(25), R(26, 25),
                                               Num(25), R(26, 25)>>)>>)}

\* the matches of a batch: one with odds, one without odds whose away side
\* clears both bars, one whose kickoff time is no date, one without odds
BatchMatches ==
    {StatsRecord(Ars, Che, <<NoArray, NoArray>>, <<Num(8), Num(6), Num(7), Num(5)>>,
                 Arr(<<H2H(Ars, Che, 3, 2)>>), <<"2024-05-04 15:00", Undefined>>),
     StatsRecord(Lee, Eve, <<Arr(<<"L", "L", "L", "L", "L">>),
                             Arr(<<"W", "W", "W", "W", "W">>)>>,
                 <<Num(2), Num(18), Num(18), Num(2)>>,
                 Arr(<<H2H(Lee, Eve, 0, 2), H2H(Eve, Lee, 3, 1)>>),
                 <<"2024-05-05 17:30", Undefined>>),
     StatsRecord(Che, Ars, <<NoArray, NoArray>>, <<Num(8), Num(6), Num(7), Num(5)>>,
                 NoArray, <<"", Zero>>),
     StatsRecord(Lee, Eve, <<NoArray, NoArray>>, <<Undefined, Undefined, Undefined, Undefined>>,
                 NoArray, <<NoString, Undefined>>)}
BatchFeeds ==
    {Feeds(<<>>, <<>>, <<>>),
     Feeds(<<OddsEntry(ArsFC, Che, <<R(4, 3), Num(4), Num(8), Undefined, Undefined,
                                     R(3, 2), R(5, 2)>>)>>, <<>>, <<>>)}

\* ---- generateFeatures, then predictMatches ----
\* generateFeatures on one merged match (mergeMatchData has returned)
ScoreInit ==
    /\ mergedMatches \in [1..1 -> ScoreMatches]
    /\ flashscoreMatches = mergedMatches
    /\ rawOdds \in ScoreFeeds
    /\ mpc = "done" /\ svMatch = NoRecord /\ fsMatch = NoRecord
    /\ lastMerge = NoMerge /\ nSecondary = 0
    /\ opc = "idle" /\ bookmakerOddsArray = <<>> /\ bestResult = NotCalled
    /\ ppc = "features" /\ matches = <<>> /\ pIdx = 0 /\ predictions = <<>> /\ thrown = {}
    /\ epc = "idle" /\ upcomingMatches = <<>> /\ eIdx = 0 /\ enginePredictions = <<>>
    /\ store = <<>> /\ engineLog = <<>>
    /\ cpc = "idle" /\ callee = "none" /\ callArgs = <<>> /\ callResult = <<>>
    /\ now = 0 /\ lastRequestTime = 0 /\ callers = <<>> /\ sent = <<>>
    /\ isEnabled = FALSE /\ redis = "null" /\ times = 0 /\ commands = <<>> /\ cacheReturn = <<>>

GenerateFeatures ==
    /\ ppc = "features" /\ mpc = "done"
    /\ matches' = generateFeatures(mergedMatches, rawOdds)
    /\ ppc' = "loop"
    /\ UNCHANGED <<pIdx, predictions, thrown>>
    /\ UNCHANGED <<mergeVars, oddsVars, engineVars, callVars, clientVars, cacheVars>>

PredictMatch ==
    /\ ppc = "loop" /\ pIdx < Len(matches)
    /\ \E loop \in {LoopStep([predictions |-> predictions, thrown |-> thrown, pIdx |-> pIdx],
                             TryPredict(matches[pIdx + 1]), Len(matches))} :
          /\ predictions' = loop.predictions
          /\ thrown' = loop.thrown
          /\ pIdx' = loop.pIdx
    /\ UNCHANGED <<ppc, matches>>
    /\ UNCHANGED <<mergeVars, oddsVars, engineVars, callVars, clientVars, cacheVars>>

\* return predictions
PredictReturn ==
    /\ ppc = "loop" /\ pIdx >= Len(matches)
    /\ ppc' = "returned"
    /\ UNCHANGED <<matches, pIdx, predictions, thrown>>
    /\ UNCHANGED <<mergeVars, oddsVars, engineVars, callVars, clientVars, cacheVars>>

-----------------------------------------------------------------------------
(***************************************************************************)
(* Scoring mode (b): PredictionEngine.generateWeekendPredictions.  What     *)
(* analyzMatch makes of a match is an input here: it throws, returns null,  *)
(* or returns a prediction with a confidence score.                         *)
(***************************************************************************)
MIN_CONFIDENCE_THRESHOLD == 60

Analysis(kind, score) == [kind |-> kind, confidenceScore |-> score]
AnalysisOutcomes ==
    {Analysis("throws", 0), Analysis("null", 0), Analysis("prediction", 55),
     Analysis("prediction", 60), Analysis("prediction", 85)}

\* getUpcomingWeekendMatches: rows of the match table, ids are unique
UpcomingLists ==
    UNION {{[i \in 1..n |-> [id |-> i, analysis |-> outcomes[i]]] :
               outcomes \in [1..n -> AnalysisOutcomes]} : n \in 0..MaxBatch}

\* the rows of prisma.prediction before the run
StoredBefore == {<<>>, <<[matchId |-> 1, confidenceScore |-> 50, isActive |-> FALSE]>>}

\* the PredictionResult analyzMatch returned for match
EnginePrediction(match) ==
    [matchId |-> match.id, confidenceScore |-> match.analysis.confidenceScore]

\* mutant: every prediction analyzMatch returns is accepted
Accepted_AnyConfidence(match) == match.analysis.kind = "prediction"

\* "prediction && prediction.confidenceScore >= config.MIN_CONFIDENCE_THRESHOLD"
Accepted(match) ==
    /\ match.analysis.kind = "prediction"
    /\ match.analysis.confidenceScore >= MIN_CONFIDENCE_THRESHOLD

\* mutant: the stored prediction replaces the table
Upsert_Replace(rows, prediction) ==
    <<[matchId |-> prediction.matchId,
       confidenceScore |-> prediction.confidenceScore, isActive |-> TRUE]>>

\* mutant: a row is created whether or not the match has one
Upsert_Create(rows, prediction) ==
    Append(rows, [matchId |-> prediction.matchId,
                  confidenceScore |-> prediction.confidenceScore, isActive |-> TRUE])

\* prisma.prediction.upsert({ where: { matchId }, create: {...}, update: {...} })
Upsert(rows, prediction) ==
    IF \E k \in 1..Len(rows) : rows[k].matchId = prediction.matchId
    THEN [k \in 1..Len(rows) |->
            IF rows[k].matchId = prediction.matchId
            THEN [matchId |-> prediction.matchId,
                  confidenceScore |-> prediction.confidenceScore, isActive |-> TRUE]
            ELSE rows[k]]
    ELSE Append(rows, [matchId |-> prediction.matchId,
                       confidenceScore |-> prediction.confidenceScore, isActive |-> TRUE])

\* predictions.sort((a, b) => b.confidenceScore - a.confidenceScore): stable
InsertSorted(sorted, p) ==
    LET before == SelectSeq(sorted, LAMBDA q : q.confidenceScore >= p.confidenceScore)
        after  == SelectSeq(sorted, LAMBDA q : q.confidenceScore < p.confidenceScore)
    IN  before \o <<p>> \o after
RECURSIVE SortFrom(_, _, _)
SortFrom(list, k, sorted) ==
    IF k > Len(list) THEN sorted ELSE SortFrom(list, k + 1, InsertSorted(sorted, list[k]))
SortByConfidence(list) == SortFrom(list, 1, <<>>)

\* one iteration of the loop: analyzMatch, the threshold, push, savePrediction
\* (the upsert succeeds or rejects), and the catch block
EngineMatch ==
    /\ epc = "loop" /\ eIdx < Len(upcomingMatches)
    /\ LET match == upcomingMatches[eIdx + 1] IN
         \/ /\ match.analysis.kind = "throws"
            /\ engineLog' = Append(engineLog, [matchId |-> match.id, outcome |-> "failed"])
            /\ UNCHANGED <<enginePredictions, store>>
         \/ /\ match.analysis.kind # "throws" /\ ~Accepted(match)
            /\ engineLog' = Append(engineLog, [matchId |-> match.id, outcome |-> "skipped"])
            /\ UNCHANGED <<enginePredictions, store>>
         \/ /\ Accepted(match)
            /\ enginePredictions' = Append(enginePredictions, EnginePrediction(match))
            /\ \/ /\ store' = Upsert(store, EnginePrediction(match))
                  /\ engineLog' = Append(engineLog, [matchId |-> match.id, outcome |-> "saved"])
               \/ /\ store' = store
                  /\ engineLog' = Append(engineLog, [matchId |-> match.id, outcome |-> "failed"])
    /\ eIdx' = eIdx + 1
    /\ UNCHANGED <<epc, upcomingMatches>>
    /\ UNCHANGED <<mergeVars, oddsVars, predictVars, callVars, clientVars, cacheVars>>

\* return predictions.sort(...)
EngineReturn ==
    /\ epc = "loop" /\ eIdx >= Len(upcomingMatches)
    /\ enginePredictions' = SortByConfidence(enginePredictions)
    /\ epc' = "returned"
    /\ UNCHANGED <<upcomingMatches, eIdx, store, engineLog>>
    /\ UNCHANGED <<mergeVars, oddsVars, predictVars, callVars, clientVars, cacheVars>>

\* the matches getUpcomingWeekendMatches finds for one run of a series
MaxRunMatches == 2
RunLists ==
    UNION {{[i \in 1..n |-> [id |-> i, analysis |-> outcomes[i]]] :
               outcomes \in [1..n -> AnalysisOutcomes]} : n \in 0..MaxRunMatches}

\* the engine before its first run of a series
EngineInit ==
    /\ mpc = "idle" /\ flashscoreMatches = <<>> /\ mergedMatches = <<>>
    /\ svMatch = NoRecord /\ fsMatch = NoRecord /\ lastMerge = NoMerge /\ nSecondary = 0
    /\ opc = "idle" /\ rawOdds = <<>> /\ bookmakerOddsArray = <<>> /\ bestResult = NotCalled
    /\ ppc = "idle" /\ matches = <<>> /\ pIdx = 0 /\ predictions = <<>> /\ thrown = {}
    /\ cpc = "idle" /\ callee = "none" /\ callArgs = <<>> /\ callResult = <<>>
    /\ now = 0 /\ lastRequestTime = 0 /\ callers = <<>> /\ sent = <<>>
    /\ isEnabled = FALSE /\ redis = "null" /\ times = 0 /\ commands = <<>> /\ cacheReturn = <<>>
    /\ epc = "idle" /\ upcomingMatches = <<>> /\ eIdx = 0 /\ enginePredictions = <<>>
    /\ engineLog = <<>>
    /\ store \in StoredBefore

\* generateWeekendPredictions is called (by the cron job or by hand) after the
\* run before it has returned: the matches of the day are read, the list of
\* predictions is new
EngineStart ==
    /\ epc \in {"idle", "returned"}
    /\ upcomingMatches' \in RunLists
    /\ eIdx' = 0 /\ enginePredictions' = <<>> /\ engineLog' = <<>>
    /\ epc' = "loop"
    /\ UNCHANGED store
    /\ UNCHANGED <<mergeVars, oddsVars, predictVars, callVars, clientVars, cacheVars>>

\* a batch handed to predictMatches, or a run of generateWeekendPredictions
BatchInit ==
    /\ mpc = "done" /\ svMatch = NoRecord /\ fsMatch = NoRecord
    /\ lastMerge = NoMerge /\ nSecondary = 0
    /\ opc = "idle" /\ bookmakerOddsArray = <<>> /\ bestResult = NotCalled
    /\ matches = <<>> /\ pIdx = 0 /\ predictions = <<>> /\ thrown = {}
    /\ eIdx = 0 /\ enginePredictions = <<>> /\ engineLog = <<>>
    /\ cpc = "idle" /\ callee = "none" /\ callArgs = <<>> /\ callResult = <<>>
    /\ now = 0 /\ lastRequestTime = 0 /\ callers = <<>> /\ sent = <<>>
    /\ isEnabled = FALSE /\ redis = "null" /\ times = 0 /\ commands = <<>> /\ cacheReturn = <<>>
    /\ \/ /\ mergedMatches \in SeqsUpTo(BatchMatches, MaxBatch)
          /\ flashscoreMatches = mergedMatches
          /\ rawOdds \in BatchFeeds
          /\ ppc = "features"
          /\ epc = "idle" /\ upcomingMatches = <<>> /\ store = <<>>
       \/ /\ mergedMatches = <<>> /\ flashscoreMatches = <<>>
          /\ rawOdds = Feeds(<<>>, <<>>, <<>>)
          /\ ppc = "idle"
          /\ epc = "loop" /\ upcomingMatches \in UpcomingLists /\ store \in StoredBefore

-----------------------------------------------------------------------------
(***************************************************************************)
(* Scoring mode (b): PredictionEngine.analyzMatch and the sub-scores.       *)
(* A nullable column holds Undefined for null; scores are exact rationals,  *)
(* the confidence score is an integer.                                      *)
(***************************************************************************)
\* config, with the defaults of the schema
DefaultConfig ==
    [FORM_WEIGHT |-> R(30, 100), HOME_AWAY_WEIGHT |-> R(25, 100),
     HEAD_TO_HEAD_WEIGHT |-> R(20, 100), INJURY_WEIGHT |-> R(15, 100),
     LEAGUE_POSITION_WEIGHT |-> R(10, 100)]

\* (formPoints / 15) * 100
FormPercent(team) == RMul(RDiv(Num(team.formPoints), Num(15)), Num(100))

calculateFormScore(homeTeam, awayTeam) ==
    RAdd(Num(50), RDiv(RSub(FormPercent(homeTeam), FormPercent(awayTeam)), Num(2)))

calculateHomeAwayScore(homeTeam, awayTeam) ==
    RDiv(RAdd(RMul(homeTeam.homeWinRate, Num(100)),
              RMul(RSub(One, awayTeam.awayWinRate), Num(100))),
         Num(2))

H2HScoreOf(h2hHomeWins, totalH2H) ==
    IF totalH2H = 0 THEN Num(50) ELSE RMul(RDiv(Num(h2hHomeWins), Num(totalH2H)), Num(100))

calculateH2HScore(match) ==
    H2HScoreOf(match.h2hHomeWins, match.h2hHomeWins + match.h2hDraws + match.h2hAwayWins)

\* the switch on injury.severity
SeverityScore(severity) ==
    CASE severity = "SEVERE" -> Num(3)
      [] severity = "MODERATE" -> Num(2)
      [] severity = "MINOR" -> One
      [] severity = "DOUBTFUL" -> R(1, 2)
      [] OTHER -> Zero

RECURSIVE getTeamInjuryScoreFrom(_, _)
getTeamInjuryScoreFrom(injuries, i) ==
    IF i > Len(injuries) THEN Zero
    ELSE RAdd(SeverityScore(injuries[i]), getTeamInjuryScoreFrom(injuries, i + 1))

getTeamInjuryScore(injuries) == getTeamInjuryScoreFrom(injuries, 1)

calculateInjuryImpact(homeTeam, awayTeam) ==
    RAdd(Num(50), RMul(RSub(getTeamInjuryScore(awayTeam.injuries),
                            getTeamInjuryScore(homeTeam.injuries)),
                       Num(10)))

getMotivationScore(position) ==
    IF RLe(position, Num(4)) THEN 10 ELSE IF RGe(position, Num(17)) THEN 10 ELSE 5

calculateLeagueMotivation(homeTeam, awayTeam) ==
    Num(getMotivationScore(OrElse(homeTeam.position, Num(10)))
            - getMotivationScore(OrElse(awayTeam.position, Num(10))) + 50)

Weighted(scores, weights) ==
    RAdd(RAdd(RAdd(RAdd(RMul(scores.formScore, weights.FORM_WEIGHT),
                        RMul(scores.homeAwayScore, weights.HOME_AWAY_WEIGHT)),
                   RMul(scores.h2hScore, weights.HEAD_TO_HEAD_WEIGHT)),
              RMul(scores.injuryImpact, weights.INJURY_WEIGHT)),
         RMul(scores.leagueMotivation, weights.LEAGUE_POSITION_WEIGHT))

IntMin(a, b) == IF a < b THEN a ELSE b

\* mutant: the rounded sum is returned as it is
calculateConfidenceScore_NoClamp(scores, weights) == RRound(Weighted(scores, weights))
\* Math.max(0, Math.min(100, Math.round(weighted)))
calculateConfidenceScore(scores, weights) ==
    IntMax(0, IntMin(100, RRound(Weighted(scores, weights))))

\* null
NoEngineRecommendation == [teamId |-> 0, betType |-> "null"]

\* mutant: the moderate home signal is tested before the goal-scoring pattern
determineRecommendation_ModerateFirst(formScore, homeAwayScore, h2hScore, homeTeam, awayTeam) ==
    IF RGt(formScore, Num(60)) /\ RGt(homeAwayScore, Num(60))
    THEN [teamId |-> homeTeam.id, betType |-> "HOME_WIN"]
    ELSE IF RLt(formScore, Num(40)) /\ RLt(h2hScore, Num(40))
    THEN [teamId |-> awayTeam.id, betType |-> "AWAY_WIN"]
    ELSE IF RGe(formScore, Num(50)) /\ RGe(homeAwayScore, Num(50))
    THEN [teamId |-> homeTeam.id, betType |-> "HOME_WIN"]
    ELSE IF RGt(homeTeam.avgGoalsScored, R(3, 2)) /\ RGt(awayTeam.avgGoalsScored, R(3, 2))
    THEN [teamId |-> homeTeam.id, betType |-> "BTTS"]
    ELSE NoEngineRecommendation
determineRecommendation(formScore, homeAwayScore, h2hScore, homeTeam, awayTeam) ==
    IF RGt(formScore, Num(60)) /\ RGt(homeAwayScore, Num(60))
    THEN [teamId |-> homeTeam.id, betType |-> "HOME_WIN"]
    ELSE IF RLt(formScore, Num(40)) /\ RLt(h2hScore, Num(40))
    THEN [teamId |-> awayTeam.id, betType |-> "AWAY_WIN"]
    ELSE IF RGt(homeTeam.avgGoalsScored, R(3, 2)) /\ RGt(awayTeam.avgGoalsScored, R(3, 2))
    THEN [teamId |-> homeTeam.id, betType |-> "BTTS"]
    ELSE IF RGe(formScore, Num(50)) /\ RGe(homeAwayScore, Num(50))
    THEN [teamId |-> homeTeam.id, betType |-> "HOME_WIN"]
    ELSE NoEngineRecommendation

\* oddsClient.calculateValueBet(odds, probability)
calculateValueBet(odds, probability) ==
    [isValue |-> /\ RGt(probability, RDiv(One, odds))
                 /\ RGt(RSub(RMul(odds, probability), One), R(1, 10)),
     expectedValue |-> RSub(RMul(odds, probability), One)]

ValueOf(valueAnalysis) ==
    IF valueAnalysis.isValue THEN RMul(valueAnalysis.expectedValue, Num(100)) ELSE Zero

calculateOddsValue(match, recommendedTeamId, confidenceScore) ==
    IF ~TruthyNum(match.homeOdds) \/ ~TruthyNum(match.awayOdds) THEN Zero
    ELSE ValueOf(calculateValueBet(IF recommendedTeamId = match.homeTeamId
                                   THEN match.homeOdds ELSE match.awayOdds,
                                   R(confidenceScore, 100)))

\* mutant: the risky band is tested before the value band
CategoryFor_RiskyFirst(confidenceScore, oddsValue, odds) ==
    IF confidenceScore >= 75 /\ RLe(odds, Num(2)) THEN "SAFE_BET"
    ELSE IF confidenceScore >= 60 /\ confidenceScore < 70 /\ RGt(odds, Num(3)) THEN "RISKY_BET"
    ELSE "VALUE_BET"
\* determineBetCategory after "const odds = match.homeOdds || 2.0"
CategoryFor(confidenceScore, oddsValue, odds) ==
    IF confidenceScore >= 75 /\ RLe(odds, Num(2)) THEN "SAFE_BET"
    ELSE IF confidenceScore >= 60 /\ confidenceScore < 75 /\ RGt(oddsValue, Num(10))
    THEN "VALUE_BET"
    ELSE IF confidenceScore >= 60 /\ confidenceScore < 70 /\ RGt(odds, Num(3)) THEN "RISKY_BET"
    ELSE "VALUE_BET"

determineBetCategory(confidenceScore, oddsValue, match) ==
    CategoryFor(confidenceScore, oddsValue, OrElse(match.homeOdds, Num(2)))

\* the five sub-scores of a match
ScoresOf(match) ==
    [formScore |-> calculateFormScore(match.homeTeam, match.awayTeam),
     homeAwayScore |-> calculateHomeAwayScore(match.homeTeam, match.awayTeam),
     h2hScore |-> calculateH2HScore(match),
     injuryImpact |-> calculateInjuryImpact(match.homeTeam, match.awayTeam),
     leagueMotivation |-> calculateLeagueMotivation(match.homeTeam, match.awayTeam)]

\* the PredictionResult, or null (isNull) when there is no recommendation
EngineResult(match, scores, confidenceScore, recommendation, oddsValue) ==
    [isNull |-> recommendation = NoEngineRecommendation,
     matchId |-> match.id,
     recommendedTeamId |-> recommendation.teamId,
     betType |-> recommendation.betType,
     confidenceScore |-> IF recommendation = NoEngineRecommendation THEN 0 ELSE confidenceScore,
     category |-> IF recommendation = NoEngineRecommendation THEN "null"
                  ELSE determineBetCategory(confidenceScore, oddsValue, match),
     scores |-> scores,
     oddsValue |-> oddsValue]

AnalyzRecommended(match, scores, confidenceScore, recommendation) ==
    EngineResult(match, scores, confidenceScore, recommendation,
                 IF recommendation = NoEngineRecommendation THEN Zero
                 ELSE calculateOddsValue(match, recommendation.teamId, confidenceScore))

AnalyzScored(match, scores) ==
    CHOOSE result \in
        {AnalyzRecommended(match, scores, confidenceScore, recommendation) :
            confidenceScore \in {calculateConfidenceScore(scores, DefaultConfig)},
            recommendation \in {determineRecommendation(scores.formScore, scores.homeAwayScore,
                                                        scores.h2hScore, match.homeTeam,
                                                        match.awayTeam)}} : TRUE

analyzMatch(input) ==
    CHOOSE result \in {AnalyzScored(input.match, scores) : scores \in {ScoresOf(input.match)}} : TRUE

-----------------------------------------------------------------------------
(***************************************************************************)
(* Single calls of the pure functions of the core                          *)
(***************************************************************************)
\* every other part of the core is at rest
CoreIdle ==
    /\ mpc = "idle" /\ flashscoreMatches = <<>> /\ mergedMatches = <<>>
    /\ svMatch = NoRecord /\ fsMatch = NoRecord /\ lastMerge = NoMerge /\ nSecondary = 0
    /\ opc = "idle" /\ rawOdds = <<>> /\ bookmakerOddsArray = <<>> /\ bestResult = NotCalled
    /\ ppc = "idle" /\ matches = <<>> /\ pIdx = 0 /\ predictions = <<>> /\ thrown = {}
    /\ epc = "idle" /\ upcomingMatches = <<>> /\ eIdx = 0 /\ enginePredictions = <<>>
    /\ store = <<>> /\ engineLog = <<>>
    /\ now = 0 /\ lastRequestTime = 0 /\ callers = <<>> /\ sent = <<>>
    /\ isEnabled = FALSE /\ redis = "null" /\ times = 0 /\ commands = <<>> /\ cacheReturn = <<>>

\* ---- isSimilarTeamName(name1, name2) ----
MatcherInit ==
    /\ CoreIdle
    /\ cpc = "called" /\ callee = "isSimilarTeamName"
    /\ callArgs \in MatcherNames \X MatcherNames
    /\ callResult = <<>>

IsSimilarTeamName ==
    /\ cpc = "called" /\ callee = "isSimilarTeamName"
    /\ callResult' = isSimilarTeamName(callArgs[1], callArgs[2])
    /\ cpc' = "returned"
    /\ UNCHANGED <<callee, callArgs>>
    /\ UNCHANGED <<mergeVars, oddsVars, predictVars, engineVars, clientVars, cacheVars>>

\* ---- decimalToFractional(decimalOdds) ----
MaxPriceCents == 400
\* prices to the cent up to MaxPriceCents / 100, prices next to the common
\* cases and to thirds, long prices, and what is no price
FractionalPrices ==
    {R(k, 100) : k \in 101..MaxPriceCents}
        \cup {R(k, 10000) : k \in {10004, 13333, 14995, 15005, 16667, 20004, 30009, 110004}}
        \cup {Num(11), Num(26), R(1, 2), One, Zero, NaN, Undefined}

FractionalInit ==
    /\ CoreIdle
    /\ cpc = "called" /\ callee = "decimalToFractional"
    /\ callArgs \in FractionalPrices
    /\ callResult = <<>>

DecimalToFractional ==
    /\ cpc = "called" /\ callee = "decimalToFractional"
    /\ callResult' = decimalToFractional(callArgs)
    /\ cpc' = "returned"
    /\ UNCHANGED <<callee, callArgs>>
    /\ UNCHANGED <<mergeVars, oddsVars, predictVars, engineVars, clientVars, cacheVars>>

\* ---- calculateFormPoints(form) ----
MaxForm == 6
\* the symbols of a recent-result array: W, D, L and anything else
FormSymbols == {"W", "D", "L", "-"}
FormArrays == {NoArray} \cup {Arr(form) : form \in SeqsUpTo(FormSymbols, MaxForm)}

FormPointsInit ==
    /\ CoreIdle
    /\ cpc = "called" /\ callee = "calculateFormPoints"
    /\ callArgs \in FormArrays
    /\ callResult = <<>>

CalculateFormPoints ==
    /\ cpc = "called" /\ callee = "calculateFormPoints"
    /\ callResult' = calculateFormPoints(callArgs)
    /\ cpc' = "returned"
    /\ UNCHANGED <<callee, callArgs>>
    /\ UNCHANGED <<mergeVars, oddsVars, predictVars, engineVars, clientVars, cacheVars>>

\* ---- countH2HResults(h2hMatches, teamName, 'win' | 'draw' | 'loss') ----
MaxH2H == 2
\* head-to-head records between three clubs, two of them from the same city
H2HClubs == {NameManchesterUnited, NameManchesterCity, NameArsenal}
H2HScores == {<<2, 1>>, <<1, 1>>, <<0, 2>>}
H2HRecords ==
    {H2H(pair[1], pair[2], score[1], score[2]) :
        pair \in {p \in H2HClubs \X H2HClubs : p[1] # p[2]}, score \in H2HScores}

H2HInit ==
    /\ CoreIdle
    /\ cpc = "called" /\ callee = "countH2HResults"
    /\ callArgs \in [h2hMatches : SeqsUpTo(H2HRecords, MaxH2H), teamName : H2HClubs]
    /\ callResult = <<>>

\* the three calls of generateFeatures on the same list for the same team
CountH2HResults ==
    /\ cpc = "called" /\ callee = "countH2HResults"
    /\ callResult' = [win |-> countH2HResults(callArgs.h2hMatches, callArgs.teamName, "win"),
                      draw |-> countH2HResults(callArgs.h2hMatches, callArgs.teamName, "draw"),
                      loss |-> countH2HResults(callArgs.h2hMatches, callArgs.teamName, "loss")]
    /\ cpc' = "returned"
    /\ UNCHANGED <<callee, callArgs>>
    /\ UNCHANGED <<mergeVars, oddsVars, predictVars, engineVars, clientVars, cacheVars>>

\* Weights a deployment can configure: the defaults, weights that add up to
\* more than one, and a negative weight (the schema accepts every number).
ConfigValues ==
    {DefaultConfig,
     [FORM_WEIGHT |-> R(1, 2), HOME_AWAY_WEIGHT |-> R(1, 2), HEAD_TO_HEAD_WEIGHT |-> R(1, 2),
      INJURY_WEIGHT |-> R(1, 4), LEAGUE_POSITION_WEIGHT |-> R(1, 4)],
     [FORM_WEIGHT |-> R(1, 2), HOME_AWAY_WEIGHT |-> R(-1, 1), HEAD_TO_HEAD_WEIGHT |-> R(1, 5),
      INJURY_WEIGHT |-> R(3, 20), LEAGUE_POSITION_WEIGHT |-> R(1, 10)],
     [FORM_WEIGHT |-> Zero, HOME_AWAY_WEIGHT |-> Zero, HEAD_TO_HEAD_WEIGHT |-> Zero,
      INJURY_WEIGHT |-> One, LEAGUE_POSITION_WEIGHT |-> Zero]}

\* Sub-scores, the injury impact also outside 0..100.
ScoreValues ==
    [formScore : {Zero, Num(80), R(250, 3), Num(100)},
     homeAwayScore : {Zero, Num(75), Num(100)},
     h2hScore : {Zero, Num(65), Num(100)},
     injuryImpact : {Num(-130), Num(60), Num(170)},
     leagueMotivation : {Num(45), Num(50), Num(55)}]

ConfidenceInit ==
    /\ CoreIdle
    /\ cpc = "called" /\ callee = "calculateConfidenceScore"
    /\ callArgs \in [scores : ScoreValues, weights : ConfigValues]
    /\ callResult = <<>>

CalculateConfidenceScore ==
    /\ cpc = "called" /\ callee = "calculateConfidenceScore"
    /\ callResult' = calculateConfidenceScore(callArgs.scores, callArgs.weights)
    /\ cpc' = "returned"
    /\ UNCHANGED <<callee, callArgs>>
    /\ UNCHANGED <<mergeVars, oddsVars, predictVars, engineVars, clientVars, cacheVars>>

\* Stored matches for analyzMatch: last-five form points of the two teams,
\* their home and away win rates, head-to-head counts, injury lists, league
\* positions (null when unknown), goals scored per game and the home and
\* away prices (null when the match has none).
EngineForms     == {<<15, 0>>, <<0, 15>>, <<9, 9>>, <<12, 6>>, <<5, 9>>, <<9, 6>>, <<6, 9>>}
EngineWinRates  == {<<R(4, 5), R(1, 5)>>, <<R(1, 2), R(1, 2)>>, <<R(1, 5), R(4, 5)>>, <<One, Zero>>}
EngineH2H       == {<<0, 0, 0>>, <<3, 1, 1>>, <<1, 1, 1>>, <<5, 0, 0>>}
EngineInjuries  ==
    {<< <<>>, <<>> >>,
     << <<"SEVERE", "SEVERE">>, <<>> >>,
     << <<>>, <<"SEVERE", "SEVERE", "SEVERE", "SEVERE", "SEVERE">> >>,
     << <<"MINOR">>, <<"DOUBTFUL", "MODERATE">> >>}
EnginePositions == {<<Num(1), Num(10)>>, <<Undefined, Num(18)>>, <<Num(10), Num(10)>>}
EngineGoals     == {<<Num(2), R(9, 5)>>, <<One, One>>}
EngineOdds      ==
    {<<R(3, 2), Num(6)>>, <<Undefined, Undefined>>, <<R(7, 2), Num(2)>>,
     <<Num(2), R(18, 5)>>, <<Undefined, R(9, 5)>>, <<R(7, 2), Undefined>>}

StoredTeam(id, formPoints, homeWinRate, awayWinRate, avgGoalsScored, position, injuries) ==
    [id |-> id, formPoints |-> formPoints, homeWinRate |-> homeWinRate,
     awayWinRate |-> awayWinRate, avgGoalsScored |-> avgGoalsScored,
     position |-> position, injuries |-> injuries]

StoredMatch(form, rate, h2h, injuries, position, goals, odds) ==
    [id |-> 1, homeTeamId |-> 1, awayTeamId |-> 2,
     homeTeam |-> StoredTeam(1, form[1], rate[1], R(1, 2), goals[1], position[1], injuries[1]),
     awayTeam |-> StoredTeam(2, form[2], R(1, 2), rate[2], goals[2], position[2], injuries[2]),
     h2hHomeWins |-> h2h[1], h2hDraws |-> h2h[2], h2hAwayWins |-> h2h[3],
     homeOdds |-> odds[1], awayOdds |-> odds[2]]

StoredMatches ==
    {StoredMatch(form, rate, h2h, injuries, position, goals, odds) :
        form \in EngineForms, rate \in EngineWinRates, h2h \in EngineH2H,
        injuries \in EngineInjuries, position \in EnginePositions,
        goals \in EngineGoals, odds \in EngineOdds}

AnalyzInit ==
    /\ CoreIdle
    /\ cpc = "called" /\ callee = "analyzMatch"
    /\ callArgs \in [match : StoredMatches]
    /\ callResult = <<>>

AnalyzMatch ==
    /\ cpc = "called" /\ callee = "analyzMatch"
    /\ callResult' = analyzMatch(callArgs)
    /\ cpc' = "returned"
    /\ UNCHANGED <<callee, callArgs>>
    /\ UNCHANGED <<mergeVars, oddsVars, predictVars, engineVars, clientVars, cacheVars>>

\* Confidence scores around the band edges, odds values around 10 and home
\* prices around 2.0 and 3.0 (null when the match has no price).
CategoryConfidences == {0, 59, 60, 69, 70, 74, 75, 100}
CategoryOddsValues  == {Zero, Num(10), R(21, 2), Num(25)}
CategoryHomeOdds    == {Undefined, R(3, 2), Num(2), R(201, 100), Num(3), R(7, 2)}

CategoryInit ==
    /\ CoreIdle
    /\ cpc = "called" /\ callee = "determineBetCategory"
    /\ callArgs \in [confidenceScore : CategoryConfidences, oddsValue : CategoryOddsValues,
                     match : [homeOdds : CategoryHomeOdds]]
    /\ callResult = <<>>

DetermineBetCategory ==
    /\ cpc = "called" /\ callee = "determineBetCategory"
    /\ callResult' = determineBetCategory(callArgs.confidenceScore, callArgs.oddsValue,
                                          callArgs.match)
    /\ cpc' = "returned"
    /\ UNCHANGED <<callee, callArgs>>
    /\ UNCHANGED <<mergeVars, oddsVars, predictVars, engineVars, clientVars, cacheVars>>

-----------------------------------------------------------------------------
(***************************************************************************)
(* SportmonksClient: request() and rateLimit() of the one exported         *)
(* instance, called by the cron jobs and by the manual refresh route.      *)
(* A caller that has to wait sleeps on a timer; other callers run          *)
(* meanwhile.                                                              *)
(***************************************************************************)
SPORTMONKS_RATE_LIMIT_DELAY == 2000

Callers    == {"cron", "manual"}
StartTimes == {10000}
TimeSteps  == {500, 1500}
\* the clock runs for MaxElapsed milliseconds, at most MaxSent requests are made
MaxElapsed == 4000
MaxSent    == 3

Idling        == [pc |-> "idle", wake |-> 0]
Waiting(wake) == [pc |-> "waiting", wake |-> wake]
WaitingCallers == {c \in Callers : callers[c].pc = "waiting"}

ClientInit ==
    /\ mpc = "idle" /\ flashscoreMatches = <<>> /\ mergedMatches = <<>>
    /\ svMatch = NoRecord /\ fsMatch = NoRecord /\ lastMerge = NoMerge /\ nSecondary = 0
    /\ opc = "idle" /\ rawOdds = <<>> /\ bookmakerOddsArray = <<>> /\ bestResult = NotCalled
    /\ ppc = "idle" /\ matches = <<>> /\ pIdx = 0 /\ predictions = <<>> /\ thrown = {}
    /\ epc = "idle" /\ upcomingMatches = <<>> /\ eIdx = 0 /\ enginePredictions = <<>>
    /\ store = <<>> /\ engineLog = <<>>
    /\ cpc = "idle" /\ callee = "none" /\ callArgs = <<>> /\ callResult = <<>>
    /\ isEnabled = FALSE /\ redis = "null" /\ times = 0 /\ commands = <<>> /\ cacheReturn = <<>>
    /\ now \in StartTimes /\ lastRequestTime = 0
    /\ callers = [c \in Callers |-> Idling]
    /\ sent = <<>>

\* rateLimit() up to its await: the time since the last request is read and,
\* when it is short, a timer is set for the rest of the delay
MustWait == now - lastRequestTime < SPORTMONKS_RATE_LIMIT_DELAY
WaitTime == SPORTMONKS_RATE_LIMIT_DELAY - (now - lastRequestTime)

\* request(): a cache hit returns without a request; otherwise rateLimit(),
\* and without a wait the time is stamped and the request is sent at once
Request(c) ==
    /\ callers[c].pc = "idle"
    /\ Len(sent) + Cardinality(WaitingCallers) < MaxSent
    /\ \E cached \in BOOLEAN :
         IF cached
         THEN UNCHANGED <<lastRequestTime, callers, sent>>
         ELSE IF MustWait
         THEN /\ callers' = [callers EXCEPT ![c] = Waiting(now + WaitTime)]
              /\ UNCHANGED <<lastRequestTime, sent>>
         ELSE /\ lastRequestTime' = now
              /\ sent' = Append(sent, now)
              /\ UNCHANGED callers
    /\ UNCHANGED now
    /\ UNCHANGED <<mergeVars, oddsVars, predictVars, engineVars, callVars, cacheVars>>

\* the timer of a waiting caller fires: "this.lastRequestTime = Date.now()",
\* rateLimit() returns and the request is sent
TimerFires(c) ==
    /\ callers[c].pc = "waiting" /\ now >= callers[c].wake
    /\ lastRequestTime' = now
    /\ sent' = Append(sent, now)
    /\ callers' = [callers EXCEPT ![c] = Idling]
    /\ UNCHANGED now
    /\ UNCHANGED <<mergeVars, oddsVars, predictVars, engineVars, callVars, cacheVars>>

\* time passes
Tick ==
    /\ \E step \in TimeSteps :
         /\ \A start \in StartTimes : now + step <= start + MaxElapsed
         /\ now' = now + step
    /\ UNCHANGED <<lastRequestTime, callers, sent>>
    /\ UNCHANGED <<mergeVars, oddsVars, predictVars, engineVars, callVars, cacheVars>>

-----------------------------------------------------------------------------
(***************************************************************************)
(* CacheService: the constructor's handlers and get / set / delete /       *)
(* deletePattern of the one exported instance.  redis is "null" when the   *)
(* constructor could not create the client, "connecting" before the first  *)
(* connection, "up" after 'connect', "failed" after 'error' and "ended"    *)
(* once retryStrategy has returned null.                                   *)
(***************************************************************************)
\* how the awaited part of an operation ends: a value, or a thrown error;
\* issued are the Redis commands it has sent
Resolves(value, issued) == [threw |-> FALSE, value |-> value, issued |-> issued]
Rejects(issued)         == [threw |-> TRUE, value |-> "error", issued |-> issued]

\* mutant: only a missing client turns an operation off
CacheOff_ClientOnly(enabled, client) == client = "null"
\* "!this.isEnabled || !this.client"
CacheOff(enabled, client) == ~enabled \/ client = "null"

\* "catch (error) { logger.error(...); return fallback }"
Caught(outcome, fallback) ==
    IF outcome.threw THEN Resolves(fallback, outcome.issued) ELSE outcome

\* the try block of get: client.get(key) rejects, or resolves with nothing or
\* with a string that JSON.parse reads or throws on
TryGet(reply) ==
    CASE reply = "rejected" -> Rejects(<<"GET">>)
      [] reply = "nil"      -> Resolves("null", <<"GET">>)
      [] reply = "corrupt"  -> Rejects(<<"GET">>)
      [] OTHER              -> Resolves("value", <<"GET">>)

\* the try block of set: JSON.stringify(value) throws before anything is
\* sent, or client.setex resolves or rejects
TrySet(reply) ==
    CASE reply = "unserializable" -> Rejects(<<>>)
      [] reply = "rejected"       -> Rejects(<<"SETEX">>)
      [] OTHER                    -> Resolves("undefined", <<"SETEX">>)

TryDelete(reply) ==
    IF reply = "rejected" THEN Rejects(<<"DEL">>) ELSE Resolves("undefined", <<"DEL">>)

\* the try block of deletePattern: client.keys(pattern), then client.del of
\* the keys when there are any
TryDeletePattern(reply) ==
    CASE reply = "rejected"     -> Rejects(<<"KEYS">>)
      [] reply = "nil"          -> Resolves("undefined", <<"KEYS">>)
      [] reply = "del rejected" -> Rejects(<<"KEYS", "DEL">>)
      [] OTHER                  -> Resolves("undefined", <<"KEYS", "DEL">>)

CacheOperation(op, enabled, client, reply) ==
    CASE op = "get" ->
            IF CacheOff(enabled, client) THEN Resolves("null", <<>>)
            ELSE Caught(TryGet(reply), "null")
      [] op = "set" ->
            IF CacheOff(enabled, client) THEN Resolves("undefined", <<>>)
            ELSE Caught(TrySet(reply), "undefined")
      [] op = "delete" ->
            IF CacheOff(enabled, client) THEN Resolves("undefined", <<>>)
            ELSE Caught(TryDelete(reply), "undefined")
      [] OTHER ->
            IF CacheOff(enabled, client) THEN Resolves("undefined", <<>>)
            ELSE Caught(TryDeletePattern(reply), "undefined")

CacheOperations == {"get", "set", "delete", "deletePattern"}
RedisReplies    == {"ok", "nil", "corrupt", "unserializable", "rejected", "del rejected"}
\* at most MaxCommands Redis commands are followed
MaxCommands     == 3

\* new CacheService(): the client is created and connects in the background,
\* or "new Redis" throws and the cache is disabled for good
CacheInit ==
    /\ mpc = "idle" /\ flashscoreMatches = <<>> /\ mergedMatches = <<>>
    /\ svMatch = NoRecord /\ fsMatch = NoRecord /\ lastMerge = NoMerge /\ nSecondary = 0
    /\ opc = "idle" /\ rawOdds = <<>> /\ bookmakerOddsArray = <<>> /\ bestResult = NotCalled
    /\ ppc = "idle" /\ matches = <<>> /\ pIdx = 0 /\ predictions = <<>> /\ thrown = {}
    /\ epc = "idle" /\ upcomingMatches = <<>> /\ eIdx = 0 /\ enginePredictions = <<>>
    /\ store = <<>> /\ engineLog = <<>>
    /\ cpc = "idle" /\ callee = "none" /\ callArgs = <<>> /\ callResult = <<>>
    /\ now = 0 /\ lastRequestTime = 0 /\ callers = <<>> /\ sent = <<>>
    /\ \/ isEnabled = TRUE /\ redis = "connecting"
       \/ isEnabled = FALSE /\ redis = "null"
    /\ times = 0 /\ commands = <<>> /\ cacheReturn = <<>>

\* client.on("connect"): the connection is made (ioredis starts counting the
\* attempts anew)
RedisConnect ==
    /\ redis \in {"connecting", "failed"}
    /\ redis' = "up" /\ isEnabled' = TRUE /\ times' = 0
    /\ UNCHANGED <<commands, cacheReturn>>
    /\ UNCHANGED <<mergeVars, oddsVars, predictVars, engineVars, callVars, clientVars>>

\* client.on("error")
RedisError ==
    /\ redis \in {"connecting", "up", "failed"}
    /\ redis' = "failed" /\ isEnabled' = FALSE
    /\ UNCHANGED <<times, commands, cacheReturn>>
    /\ UNCHANGED <<mergeVars, oddsVars, predictVars, engineVars, callVars, clientVars>>

\* retryStrategy(times) after a lost or refused connection: null after the
\* third attempt, which ends the client
RetryStrategy ==
    /\ redis \in {"connecting", "failed"}
    /\ times' = times + 1
    /\ IF times + 1 > 3
       THEN isEnabled' = FALSE /\ redis' = "ended"
       ELSE UNCHANGED <<isEnabled, redis>>
    /\ UNCHANGED <<commands, cacheReturn>>
    /\ UNCHANGED <<mergeVars, oddsVars, predictVars, engineVars, callVars, clientVars>>

\* cache.get / set / delete / deletePattern, with what Redis answers
CacheCall ==
    /\ Len(commands) < MaxCommands
    /\ \E op \in CacheOperations : \E reply \in RedisReplies :
         \E outcome \in {CacheOperation(op, isEnabled, redis, reply)} :
            /\ cacheReturn' = [op |-> op, enabled |-> isEnabled, redis |-> redis,
                               outcome |-> outcome]
            /\ commands' = commands \o outcome.issued
    /\ UNCHANGED <<isEnabled, redis, times>>
    /\ UNCHANGED <<mergeVars, oddsVars, predictVars, engineVars, callVars, clientVars>>

\* ---- decimalToImpliedProbability(decimalOdds), then ----
\* ---- impliedProbabilityToDecimal of what it returned ----
\* the prices of decimalToFractional and prices below zero
ImpliedPrices == FractionalPrices \cup {Num(-2), R(-3, 2), R(99, 100), Num(1000)}

ImpliedInit ==
    /\ CoreIdle
    /\ cpc = "called" /\ callee = "decimalToImpliedProbability"
    /\ callArgs \in ImpliedPrices
    /\ callResult = <<>>

DecimalToImpliedProbability ==
    /\ cpc = "called" /\ callee = "decimalToImpliedProbability"
    /\ callResult' = <<decimalToImpliedProbability(callArgs)>>
    /\ cpc' = "returned"
    /\ UNCHANGED <<callee, callArgs>>
    /\ UNCHANGED <<mergeVars, oddsVars, predictVars, engineVars, clientVars, cacheVars>>

ImpliedProbabilityToDecimal ==
    /\ cpc = "returned" /\ callee = "decimalToImpliedProbability"
    /\ callResult' = <<callResult[1], impliedProbabilityToDecimal(callResult[1])>>
    /\ cpc' = "converted"
    /\ UNCHANGED <<callee, callArgs>>
    /\ UNCHANGED <<mergeVars, oddsVars, predictVars, engineVars, clientVars, cacheVars>>

-----------------------------------------------------------------------------
(***************************************************************************)
(* Specifications                                                          *)
(***************************************************************************)
\* The Source Reconciler: one call of mergeMatchData on arbitrary source arrays.
MergeNext ==
    \/ MergeSoccervista
    \/ SoccervistaDone
    \/ MergeFreesupertips
    \/ MergeReturn

SpecMerge == MergeInit /\ [][MergeNext]_vars

\* The Odds Normalizer and the Best-Price Selector.
OddsNext ==
    \/ NormalizeOdds
    \/ FindBestOdds

\* one bookmaker, every combination of prices
SpecNormalize == NormalizeInit /\ [][OddsNext]_vars
\* several bookmakers
SpecBest == BestInit /\ [][OddsNext]_vars

\* The Feature Builder and mode (a) scoring of one match.
PredictNext ==
    \/ GenerateFeatures
    \/ PredictMatch
    \/ PredictReturn

SpecScore == ScoreInit /\ [][PredictNext]_vars

\* Batches in both scoring modes.
BatchNext ==
    \/ GenerateFeatures
    \/ PredictMatch
    \/ PredictReturn
    \/ EngineMatch
    \/ EngineReturn

SpecBatch == BatchInit /\ [][BatchNext]_vars

\* The Identity Matcher on one pair of names.
SpecMatcher == MatcherInit /\ [][IsSimilarTeamName]_vars

\* The fractional form of one price.
SpecFractional == FractionalInit /\ [][DecimalToFractional]_vars

\* The form points of one recent-result array.
SpecFormPoints == FormPointsInit /\ [][CalculateFormPoints]_vars

\* The head-to-head tallies of one team over one list of records.
SpecH2H == H2HInit /\ [][CountH2HResults]_vars

SpecConfidence == ConfidenceInit /\ [][CalculateConfidenceScore]_vars

SpecAnalyze == AnalyzInit /\ [][AnalyzMatch]_vars

SpecCategory == CategoryInit /\ [][DetermineBetCategory]_vars

\* Runs of generateWeekendPredictions, one after the other, on one store.
EngineNext ==
    \/ EngineStart
    \/ EngineMatch
    \/ EngineReturn

SpecEngine == EngineInit /\ [][EngineNext]_vars

\* Callers of the Sportmonks client, interleaved.
ClientNext ==
    \/ \E c \in Callers : Request(c)
    \/ \E c \in Callers : TimerFires(c)
    \/ Tick

SpecClient == ClientInit /\ [][ClientNext]_vars

\* The cache service with its Redis connection coming and going.
CacheNext ==
    \/ RedisConnect
    \/ RedisError
    \/ RetryStrategy
    \/ CacheCall

SpecCache == CacheInit /\ [][CacheNext]_vars

\* A price turned into its implied probability and back.
ImpliedNext ==
    \/ DecimalToImpliedProbability
    \/ ImpliedProbabilityToDecimal

SpecImplied == ImpliedInit /\ [][ImpliedNext]_vars

-----------------------------------------------------------------------------
(***************************************************************************)
(* Claims                                                                  *)
(***************************************************************************)
\* The fields a Soccervista / Freesupertips merge assigns with "incoming || existing".
SvOrFields == {"home_odds", "draw_odds", "away_odds"}
FsOrFields == ArrFields \cup {"home_goals_scored_last5", "home_goals_conceded_last5",
                              "away_goals_scored_last5", "away_goals_conceded_last5"}
Incoming   == IF lastMerge.src = "sv" THEN svMatch ELSE fsMatch
Merged     == lastMerge.src # "none" /\ lastMerge.found > 0
Existing   == mergedMatches[lastMerge.found]

Unmatched == lastMerge.src # "none" /\ lastMerge.found = 0

\* the previously present entries are still there, in their original order
EntriesKept ==
    /\ Len(mergedMatches) >= Len(lastMerge.listBefore)
    /\ \A k \in 1..Len(lastMerge.listBefore) :
          /\ mergedMatches[k].home_team = lastMerge.listBefore[k].home_team
          /\ mergedMatches[k].away_team = lastMerge.listBefore[k].away_team
          /\ k # lastMerge.found => mergedMatches[k] = lastMerge.listBefore[k]

ValidPrice(p) == IsNum(p) /\ p.n > p.d
BadPrice(p)   == ~ValidPrice(p)
AllValid(q)   == ValidPrice(q.home_win_odds) /\ ValidPrice(q.draw_odds)
                 /\ ValidPrice(q.away_win_odds)
\* sum of the implied probabilities of the fair quotes of market b
FairSum(b) == RAdd(RAdd(b.fair_home_win.impliedProbability, b.fair_draw.impliedProbability),
                   b.fair_away_win.impliedProbability)
\* the margin recomputed on the fair prices of market b
FairMargin(b) == calculateBookmakerMargin(b.fair_home_win.decimal, b.fair_draw.decimal,
                                          b.fair_away_win.decimal)
Markets == 1..Len(bookmakerOddsArray)

OneXTwo  == {<<"best_home_win", "home_win">>, <<"best_draw", "draw">>,
             <<"best_away_win", "away_win">>}
Optional == {<<"best_btts_yes", "btts_yes">>, <<"best_btts_no", "btts_no">>,
             <<"best_over_2_5", "over_2_5">>, <<"best_under_2_5", "under_2_5">>}
\* the markets of array that offer outcome f
Offering(array, f) == {i \in 1..Len(array) : array[i][f] # NoOdds}
\* index i holds the maximum price of outcome f, and is the earliest that does
EarliestMax(array, f, i) ==
    /\ \A k \in Offering(array, f) : RLe(array[k][f].decimal, array[i][f].decimal)
    /\ \A k \in Offering(array, f) : k < i => RLt(array[k][f].decimal, array[i][f].decimal)
\* entry best is the maximum price of outcome f tagged with its earliest market
IsBestOf(array, f, best) ==
    IF Offering(array, f) = {} THEN best = NoBest
    ELSE \E i \in Offering(array, f) :
            /\ EarliestMax(array, f, i)
            /\ best = [bookmaker |-> array[i].bookmaker, odds |-> array[i][f]]
Reorderings(n) == {p \in [1..n -> 1..n] : \A i, j \in 1..n : i # j => p[i] # p[j]}
Reordered(array, p) == [i \in 1..Len(array) |-> array[p[i]]]
SamePrices(r1, r2) ==
    \A o \in OneXTwo \cup Optional : r1.value[o[1]].odds.decimal = r2.value[o[1]].odds.decimal

\* C4: for a non-empty list of markets, findBestOdds returns for every outcome
\* the maximum decimal price over the markets offering it, tagged with the
\* earliest such market (an outcome no market offers stays unset); the selected
\* prices are the same for every reordering of the list; and for a single
\* market the snapshot holds that market's quotes with its bookmaker.
C4_BestIsEarliestMaximum ==
    opc = "best" =>
      /\ ~bestResult.threw
      /\ \A o \in OneXTwo \cup Optional :
            IsBestOf(bookmakerOddsArray, o[2], bestResult.value[o[1]])
      /\ \A p \in Reorderings(Len(bookmakerOddsArray)) :
            SamePrices(findBestOdds(Reordered(bookmakerOddsArray, p)), bestResult)
      /\ Len(bookmakerOddsArray) = 1 =>
            \A o \in OneXTwo \cup Optional :
               /\ bestResult.value[o[1]].odds = bookmakerOddsArray[1][o[2]]
               /\ bestResult.value[o[1]].odds # NoOdds
                     => bestResult.value[o[1]].bookmaker = bookmakerOddsArray[1].bookmaker

\* C4 witness: two bookmakers tie on the home price, the later one has the
\* better draw price, and only the first offers both teams to score.
C4_Witness ==
    /\ opc = "best" /\ Len(bookmakerOddsArray) = 2
    /\ bookmakerOddsArray[1].bookmaker # bookmakerOddsArray[2].bookmaker
    /\ bookmakerOddsArray[1].home_win.decimal = bookmakerOddsArray[2].home_win.decimal
    /\ RGt(bookmakerOddsArray[1].home_win.decimal, One)
    /\ RGt(bookmakerOddsArray[2].draw.decimal, bookmakerOddsArray[1].draw.decimal)
    /\ bookmakerOddsArray[1].btts_yes # NoOdds /\ bookmakerOddsArray[2].btts_yes = NoOdds
    /\ bestResult.value.best_home_win.bookmaker = bookmakerOddsArray[1].bookmaker

\* C5: findBestOdds called with an empty list throws and returns no snapshot; a
\* snapshot is returned only for a non-empty list.
C5_EmptyListThrows ==
    opc \in {"best", "error"} =>
      /\ Len(bookmakerOddsArray) = 0 <=> bestResult.threw
      /\ bestResult.threw => bestResult.value = NoSnapshot /\ opc = "error"

\* C5 witness: findBestOdds was called with the empty list.
C5_Witness == opc = "error" /\ Len(bookmakerOddsArray) = 0 /\ bestResult.threw

\* every number of a quote is a proper number
ProperQuote(quote) ==
    /\ IsNum(quote.decimal) /\ IsNum(quote.american) /\ IsNum(quote.impliedProbability)
    /\ quote.fractional # NoString
OneXTwoPrices == {<<"home_win_odds", "home_win", "fair_home_win">>,
                  <<"draw_odds", "draw", "fair_draw">>,
                  <<"away_win_odds", "away_win", "fair_away_win">>}
OptionalPrices == {<<"btts_yes_odds", "btts_yes">>, <<"btts_no_odds", "btts_no">>,
                   <<"over_2_5_odds", "over_2_5">>, <<"under_2_5_odds", "under_2_5">>}

\* C10: invalid quotes never throw and propagate as zeros: normalizeBookmakerOdds
\* returns a market for every combination of valid and invalid prices, with
\* proper numbers in every quote; createOddsObject of a price that is missing, zero or
\* at most 1 is the all-zero quote; and every raw and fair quote derived from
\* such a price is the all-zero quote.
C10_InvalidQuotesAreZero ==
    /\ opc # "input" => Len(bookmakerOddsArray) = Len(rawOdds)
    /\ \A i \in Markets :
          /\ \A o \in OneXTwoPrices :
                /\ ProperQuote(bookmakerOddsArray[i][o[2]])
                /\ ProperQuote(bookmakerOddsArray[i][o[3]])
                /\ BadPrice(rawOdds[i][o[1]])
                      => /\ createOddsObject(rawOdds[i][o[1]]) = ZeroQuote
                         /\ bookmakerOddsArray[i][o[2]] = ZeroQuote
                         /\ bookmakerOddsArray[i][o[3]] = ZeroQuote
          /\ IsNum(bookmakerOddsArray[i].margin)
          /\ \A o \in OptionalPrices :
                bookmakerOddsArray[i][o[2]] # NoOdds
                   => /\ ProperQuote(bookmakerOddsArray[i][o[2]])
                      /\ BadPrice(rawOdds[i][o[1]])
                            => bookmakerOddsArray[i][o[2]] = ZeroQuote

\* C10 witness: a quote with a home price below 1 and valid draw and away prices
\* was normalised: the home quotes are zero, the fair draw quote is not.
C10_Witness ==
    \E i \in Markets :
        /\ rawOdds[i].home_win_odds = R(1, 2)
        /\ ValidPrice(rawOdds[i].draw_odds) /\ ValidPrice(rawOdds[i].away_win_odds)
        /\ bookmakerOddsArray[i].fair_home_win = ZeroQuote
        /\ bookmakerOddsArray[i].fair_draw # ZeroQuote

\* ---- the markets predictMatches evaluates, for C6, C7 and C9 ----
Bets == <<"1", "X", "2", "BTTS Yes", "Over 2.5">>
BetIndex(bet) == CHOOSE k \in 1..Len(Bets) : Bets[k] = bet

\* the model probabilities of a match
ModelOf(match) ==
    [model_prob_1x2 |-> predict1X2(match), model_prob_btts |-> predictBTTS(match),
     model_prob_over_under |-> predictOverUnder(match)]

\* model probability and market-implied probability of a market
ModelProb(model, bet) ==
    CASE bet = "1" -> model.model_prob_1x2.home
      [] bet = "X" -> model.model_prob_1x2.draw
      [] bet = "2" -> model.model_prob_1x2.away
      [] bet = "BTTS Yes" -> model.model_prob_btts.yes
      [] bet = "Over 2.5" -> model.model_prob_over_under.over_2_5
MarketProb(match, bet) ==
    CASE bet = "1" -> match.features.market_implied_prob_home
      [] bet = "X" -> match.features.market_implied_prob_draw
      [] bet = "2" -> match.features.market_implied_prob_away
      [] bet = "BTTS Yes" -> match.features.market_implied_prob_btts_yes
      [] bet = "Over 2.5" -> match.features.market_implied_prob_over_2_5
BestPriceOf(match, bet) ==
    CASE bet = "1" -> match.best_odds.best_home_win
      [] bet = "X" -> match.best_odds.best_draw
      [] bet = "2" -> match.best_odds.best_away_win
      [] bet = "BTTS Yes" -> match.best_odds.best_btts_yes
      [] bet = "Over 2.5" -> match.best_odds.best_over_2_5

\* the markets of a match that are evaluated: 1, X and 2 always, BTTS Yes and
\* Over 2.5 when the market has an implied probability and a best price
Evaluated(match) ==
    {bet \in {"1", "X", "2"} : TRUE}
    \cup {bet \in {"BTTS Yes", "Over 2.5"} :
            MarketProb(match, bet) # Undefined /\ BestPriceOf(match, bet) # NoBest}
EdgeOf(match, model, bet) == RSub(ModelProb(model, bet), MarketProb(match, bet))
EdgeClears(match, model, bet) == RGt(EdgeOf(match, model, bet), EDGE_THRESHOLD)
ConfidenceClears(model, bet) == RGt(ModelProb(model, bet), CONFIDENCE_THRESHOLD)
\* the evaluated markets that clear both bars
Clearing(match, model) ==
    {bet \in Evaluated(match) : EdgeClears(match, model, bet) /\ ConfidenceClears(model, bet)}

\* the matches processed so far, and the place of match i in the output
Processed == 1..pIdx
PlaceOf(i) == Cardinality({j \in 1..i : j \notin thrown})
PredictionOf(i) == predictions[PlaceOf(i)]
Recommended(i) == i \notin thrown /\ PredictionOf(i).recommendation # NoRecommendation

\* the recommendation of match i is for a market that clears both bars, and
\* carries that market's edge and model probability
GateHolds(i, model) ==
    /\ PredictionOf(i).recommendation.bet \in Clearing(matches[i], model)
    /\ PredictionOf(i).recommendation.edge
          = EdgeOf(matches[i], model, PredictionOf(i).recommendation.bet)
    /\ PredictionOf(i).recommendation.confidence
          = ModelProb(model, PredictionOf(i).recommendation.bet)

\* match i is in the output with its model probabilities and no recommendation
ReportedWithout(i, model) ==
    /\ i \notin thrown
    /\ PredictionOf(i).match_id = matches[i].match_id
    /\ PredictionOf(i).model_prob_1x2 = model.model_prob_1x2
    /\ PredictionOf(i).model_prob_btts = model.model_prob_btts
    /\ PredictionOf(i).model_prob_over_under = model.model_prob_over_under
    /\ PredictionOf(i).recommendation = NoRecommendation

C7_LargestEdgeOfAll ==
    \A i \in Processed : \A model \in {ModelOf(matches[i])} :
        Recommended(i)
           => \A bet \in Evaluated(matches[i]) :
                 RLe(EdgeOf(matches[i], model, bet),
                     EdgeOf(matches[i], model, PredictionOf(i).recommendation.bet))

\* the market the gates settle on: of the markets that clear both bars the one
\* with the largest edge, the earliest of them in the order 1, X, 2, BTTS Yes,
\* Over 2.5
Settled(match, model) ==
    {bet \in Clearing(match, model) :
        \A other \in Clearing(match, model) :
            \/ RLt(EdgeOf(match, model, other), EdgeOf(match, model, bet))
            \/ /\ EdgeOf(match, model, other) = EdgeOf(match, model, bet)
               /\ BetIndex(bet) <= BetIndex(other)}

\* the best price of the market is one a recommendation can carry
Priced(best) == TruthyStr(best.bookmaker) /\ RGt(best.odds.decimal, Zero)

\* C7: the recommended market has the largest edge of the evaluated markets that
\* clear both bars (the earliest such market on equal edges) and carries that
\* market's best price; a match in the output has no recommendation exactly when
\* no evaluated market clears both bars or that market has no bookmaker or no
\* positive best price.
C7_LargestEdgeOfClearing ==
    \A i \in Processed : \A model \in {ModelOf(matches[i])} :
        i \notin thrown
           => /\ Recommended(i)
                    => /\ Settled(matches[i], model) = {PredictionOf(i).recommendation.bet}
                       /\ PredictionOf(i).recommendation.bookmaker
                             = BestPriceOf(matches[i], PredictionOf(i).recommendation.bet).bookmaker
                       /\ PredictionOf(i).recommendation.odds
                             = BestPriceOf(matches[i], PredictionOf(i).recommendation.bet).odds.decimal
              /\ ~Recommended(i)
                    => \A bet \in Settled(matches[i], model) :
                          ~Priced(BestPriceOf(matches[i], bet))

\* C7 witness: the run has returned a recommendation for a match two evaluated
\* markets of which clear both bars.
C7_Witness ==
    /\ ppc = "returned"
    /\ \E i \in Processed : \E model \in {ModelOf(matches[i])} :
          /\ Recommended(i)
          /\ Cardinality(Clearing(matches[i], model)) >= 2

\* what predictMatches returns for the matches from position i on when no
\* iteration affects another
RECURSIVE ScoredFrom(_, _)
ScoredFrom(list, i) ==
    IF i > Len(list) THEN <<>> ELSE TryPredict(list[i]) \o ScoredFrom(list, i + 1)

\* what generateWeekendPredictions has pushed when no iteration affects another
AcceptedOf(list) ==
    SelectSeq([i \in 1..Len(list) |-> EnginePrediction(list[i])],
              LAMBDA p : \E i \in 1..Len(list) : list[i].id = p.matchId /\ Accepted(list[i]))

\* C8: predictMatches returns after it has processed every match, and its output
\* holds, in input order, exactly the predictions of the matches whose scoring
\* does not throw; generateWeekendPredictions returns after it has processed
\* every match, in order, and its output holds exactly the accepted predictions.
C8_BatchIsolation ==
    /\ ppc = "returned"
          => /\ pIdx = Len(matches)
             /\ thrown = {i \in 1..Len(matches) : TryPredict(matches[i]) = <<>>}
             /\ predictions = ScoredFrom(matches, 1)
    /\ epc = "returned"
          => /\ eIdx = Len(upcomingMatches)
             /\ Len(engineLog) = Len(upcomingMatches)
             /\ \A i \in 1..Len(upcomingMatches) : engineLog[i].matchId = upcomingMatches[i].id
             /\ enginePredictions = SortByConfidence(AcceptedOf(upcomingMatches))

\* C8 witness: predictMatches has returned, the scoring of a match has thrown and
\* a later match of the batch is in the output.
C8_Witness ==
    /\ ppc = "returned"
    /\ \E i \in thrown : \E j \in Processed : i < j /\ j \notin thrown
    /\ Len(predictions) > 0

\* the match has no bookmaker odds, or only invalid prices
NoUsableOdds(match) ==
    \A k \in 1..Len(match.bookmaker_odds) :
        /\ match.bookmaker_odds[k].home_win = ZeroQuote
        /\ match.bookmaker_odds[k].draw = ZeroQuote
        /\ match.bookmaker_odds[k].away_win = ZeroQuote
        /\ match.bookmaker_odds[k].btts_yes = NoOdds
        /\ match.bookmaker_odds[k].over_2_5 = NoOdds

\* C9 as stated, for the matches with a valid kickoff timestamp: a match without
\* bookmaker odds, or with invalid prices only, has zero market-implied 1X2
\* probabilities and is in the output with its model probabilities and no
\* recommendation.
C9_NoOddsStillPredicted ==
    \A i \in Processed : \A model \in {ModelOf(matches[i])} :
        NoUsableOdds(matches[i]) /\ IsNum(matches[i].timestamp)
           => /\ matches[i].features.market_implied_prob_home = Zero
              /\ matches[i].features.market_implied_prob_draw = Zero
              /\ matches[i].features.market_implied_prob_away = Zero
              /\ ReportedWithout(i, model)

-----------------------------------------------------------------------------
(***************************************************************************)
(* C11: the decision rule of the Identity Matcher                          *)
(***************************************************************************)
ClubWords == {<<"f", "c">>, <<"u", "n", "i", "t", "e", "d">>, <<"u", "t", "d">>,
              <<"c", "i", "t", "y">>}

\* the whole word (maximal run of word characters) around position i
RECURSIVE WordStart(_, _)
WordStart(s, i) == IF i > 1 /\ IsWordChar(s[i - 1]) THEN WordStart(s, i - 1) ELSE i
RECURSIVE WordEnd(_, _)
WordEnd(s, i) == IF i < Len(s) /\ IsWordChar(s[i + 1]) THEN WordEnd(s, i + 1) ELSE i
WordAt(s, i) == SubSeq(s, WordStart(s, i), WordEnd(s, i))

\* lower-cased, the club words removed as whole words, then every
\* non-alphanumeric removed
RECURSIVE WithoutClubWords(_, _)
WithoutClubWords(s, i) ==
    IF i > Len(s) THEN <<>>
    ELSE (IF IsAlnumLower(s[i]) /\ WordAt(s, i) \notin ClubWords THEN <<s[i]>> ELSE <<>>)
            \o WithoutClubWords(s, i + 1)
NormalForm(name) == WithoutClubWords(LowerCased(name), 1)

\* s can be turned into t with at most k single-character inserts, deletes
\* and substitutions
RECURSIVE WithinEdits(_, _, _)
WithinEdits(s, t, k) ==
    IF k < 0 THEN FALSE
    ELSE IF s = <<>> THEN Len(t) <= k
    ELSE IF t = <<>> THEN Len(s) <= k
    ELSE IF Head(s) = Head(t) THEN WithinEdits(Tail(s), Tail(t), k)
    ELSE \/ WithinEdits(Tail(s), t, k - 1)
         \/ WithinEdits(s, Tail(t), k - 1)
         \/ WithinEdits(Tail(s), Tail(t), k - 1)

IsSubstring(t, s) == \E i \in 1..(Len(s) + 1) : \E j \in (i - 1)..Len(s) : SubSeq(s, i, j) = t

DecisionRule(na, nb) ==
    \/ na = nb
    \/ IsSubstring(na, nb)
    \/ IsSubstring(nb, na)
    \/ LET maxLength == IF Len(na) > Len(nb) THEN Len(na) ELSE Len(nb)
       IN  WithinEdits(na, nb, IF maxLength > 10 THEN 3 ELSE IF maxLength > 5 THEN 2 ELSE 1)

MatcherReturned == cpc = "returned" /\ callee = "isSimilarTeamName"

Examples ==
    /\ callArgs = <<NameManchesterUnited, NameManUtd>> => callResult
    /\ callArgs = <<NameLiverpoolFC, NameLiverpool>> => callResult
    /\ callArgs = <<NameArsenal, NameChelsea>> => ~callResult

\* C11 as stated: isSimilarTeamName(a, b) is true exactly when the decision
\* rule (equal, or one a substring of the other, or edit distance within the
\* length-scaled threshold) holds of the two names lower-cased and with the
\* FC / United / Utd / City words and all non-alphanumerics removed.
C11_ClubWordsRemoved ==
    MatcherReturned =>
        /\ callResult = DecisionRule(NormalForm(callArgs[1]), NormalForm(callArgs[2]))
        /\ Examples

\* a name of ASCII letters, digits and white space that has at least one word
\* other than the club words
SpacedName(name) ==
    /\ \A i \in 1..Len(name) : IsSpace(name[i]) \/ IsAlnumLower(toLowerCase(name[i]))
    /\ \E i \in 1..Len(name) :
          /\ IsWordChar(name[i])
          /\ WordAt(LowerCased(name), i) \notin ClubWords

\* C11: isSimilarTeamName(a, b) is true exactly when the decision rule holds
\* of the normalized names; the normalized name is the lower-cased name with
\* the club words and all non-alphanumerics removed whenever the name is made
\* of letters, digits and white space and has a word other than the club
\* words; the three examples of the specification come out as stated.
C11_SpacedClubWordsRemoved ==
    MatcherReturned =>
        /\ callResult = DecisionRule(normalize(callArgs[1]), normalize(callArgs[2]))
        /\ \A k \in 1..2 : SpacedName(callArgs[k]) => normalize(callArgs[k]) = NormalForm(callArgs[k])
        /\ Examples

\* a club word was removed from the first name and the edit distance decided
C11_Witness ==
    /\ MatcherReturned
    /\ SpacedName(callArgs[1]) /\ SpacedName(callArgs[2])
    /\ NormalForm(callArgs[1]) # SelectSeq(LowerCased(callArgs[1]), IsAlnumLower)
    /\ NormalForm(callArgs[1]) # NormalForm(callArgs[2])
    /\ ~IsSubstring(NormalForm(callArgs[1]), NormalForm(callArgs[2]))
    /\ ~IsSubstring(NormalForm(callArgs[2]), NormalForm(callArgs[1]))
    /\ callResult

-----------------------------------------------------------------------------
(***************************************************************************)
(* C12: decimalToFractional finds the closest fraction                     *)
(***************************************************************************)
FractionalReturned == cpc = "returned" /\ callee = "decimalToFractional"

\* the numerators n >= 1 that are nearest to x * m from below and from above
NearestNumerators(x, m) ==
    {n \in {(x.n * m) \div x.d, ((x.n * m) \div x.d) + 1} : n >= 1}

\* no fraction n2/m2 with n2 >= 1 and 1 <= m2 <= 20 is closer to x than n/m
MinimalError(x, n, m) ==
    \A m2 \in 1..20 : \A n2 \in NearestNumerators(x, m2) :
        RLe(FractionError(x, n, m), FractionError(x, n2, m2))

\* m is the first denominator with a fraction within 0.001 of x
FirstWithinTolerance(x, n, m) ==
    /\ RLt(FractionError(x, n, m), R(1, 1000))
    /\ \A m2 \in 1..(m - 1) : \A n2 \in NearestNumerators(x, m2) :
          ~RLt(FractionError(x, n2, m2), R(1, 1000))

ClosestOrFirst(x) ==
    \E m \in 1..20 : \E n \in NearestNumerators(x, m) :
        /\ callResult = Fraction(n, m)
        /\ MinimalError(x, n, m) \/ FirstWithinTolerance(x, n, m)

\* C12 as stated: for every decimal price d > 1 the fraction returned is n/m
\* with n >= 1 and 1 <= m <= 20 and is the closest such fraction to d - 1,
\* unless it is the fraction of the first denominator whose error is below
\* 0.001.
C12_ClosestFraction ==
    (FractionalReturned /\ IsNum(callArgs) /\ RGt(callArgs, One)) =>
        ClosestOrFirst(RSub(callArgs, One))

-----------------------------------------------------------------------------
(***************************************************************************)
(* C13: the market-implied probabilities of the feature vector             *)
(***************************************************************************)
FeaturesBuilt == ppc # "features" /\ ppc # "idle"

\* a quote with a usable price
Quoted(quote) == quote # NoOdds /\ RGt(quote.decimal, One)

\* the quotes of the market an outcome belongs to
MarketOf(outcome) ==
    CASE outcome \in {"home_win", "draw", "away_win"} -> <<"home_win", "draw", "away_win">>
      [] outcome = "btts_yes" -> <<"btts_yes", "btts_no">>
      [] outcome = "over_2_5" -> <<"over_2_5", "under_2_5">>

FeatureOf(outcome) ==
    CASE outcome = "home_win" -> "market_implied_prob_home"
      [] outcome = "draw" -> "market_implied_prob_draw"
      [] outcome = "away_win" -> "market_implied_prob_away"
      [] outcome = "btts_yes" -> "market_implied_prob_btts_yes"
      [] outcome = "over_2_5" -> "market_implied_prob_over_2_5"

FeatureOutcomes == {"home_win", "draw", "away_win", "btts_yes", "over_2_5"}

\* the bookmakers of the match that quote the market of the outcome
QuotingOf(array, outcome) ==
    SelectSeq(array, LAMBDA b : \A k \in 1..Len(MarketOf(outcome)) : Quoted(b[MarketOf(outcome)[k]]))

RECURSIVE TotalOf(_, _)
TotalOf(values, i) == IF i > Len(values) THEN Zero ELSE RAdd(values[i], TotalOf(values, i + 1))
MeanOf(values) == RDiv(TotalOf(values, 1), Num(Len(values)))

\* 1 / price
RawProbability(quote) == RDiv(One, quote.decimal)

\* the raw probability divided by the total of the raw probabilities of the market
DeViggedProbability(b, outcome) ==
    LET market == MarketOf(outcome)
    IN  RDiv(RawProbability(b[outcome]),
             TotalOf([k \in 1..Len(market) |-> RawProbability(b[market[k]])], 1))

MeanDeVigged(array, outcome) ==
    IF Len(array) = 0 THEN Undefined
    ELSE MeanOf([k \in 1..Len(array) |-> DeViggedProbability(array[k], outcome)])

Overround(b) ==
    /\ Quoted(b.home_win) /\ Quoted(b.draw) /\ Quoted(b.away_win)
    /\ RGe(RAdd(RAdd(RawProbability(b.home_win), RawProbability(b.draw)),
                RawProbability(b.away_win)), One)

FairQuoteOf(outcome) ==
    CASE outcome = "home_win" -> "fair_home_win"
      [] outcome = "draw" -> "fair_draw"
      [] outcome = "away_win" -> "fair_away_win"

MeanStored(array, quote, none) ==
    IF Len(array) = 0 THEN none
    ELSE MeanOf([k \in 1..Len(array) |-> array[k][quote].impliedProbability])

-----------------------------------------------------------------------------
(***************************************************************************)
(* C14: form points                                                        *)
(***************************************************************************)
FormPointsReturned == cpc = "returned" /\ callee = "calculateFormPoints"

\* how often the symbol occurs in the array
Occurrences(form, symbol) == Cardinality({i \in 1..Len(form.v) : form.v[i] = symbol})

\* C14 as stated: for every recent-result array, of any length and any symbols,
\* the form points are the sum of 3 per W, 1 per D and 0 per L and lie between
\* 0 and 15; [W, W, D, L, W] gives 10.
C14_FormPointsOnScale ==
    FormPointsReturned =>
        /\ callResult = 3 * Occurrences(callArgs, "W") + Occurrences(callArgs, "D")
        /\ 0 <= callResult /\ callResult <= 15
        /\ callArgs = Arr(<<"W", "W", "D", "L", "W">>) => callResult = 10

-----------------------------------------------------------------------------
(***************************************************************************)
(* C15: head-to-head tallies                                               *)
(***************************************************************************)
H2HReturned == cpc = "returned" /\ callee = "countH2HResults"

\* the records in which the team played, as home or as away side
Involving(h2hMatches, teamName) ==
    {i \in 1..Len(h2hMatches) :
        \/ isSimilarTeamName(h2hMatches[i].home_team, teamName)
        \/ isSimilarTeamName(h2hMatches[i].away_team, teamName)}

\* C15 as stated: every head-to-head record is counted in at most one of the
\* win, draw and loss tallies of the queried team and a record that does not
\* involve the team in none, so the three tallies together never exceed the
\* number of records, whatever the team names are.
C15_EachRecordCountedOnce ==
    H2HReturned =>
        /\ callResult.win + callResult.draw + callResult.loss
              <= Cardinality(Involving(callArgs.h2hMatches, callArgs.teamName))
        /\ callResult.win + callResult.draw + callResult.loss <= Len(callArgs.h2hMatches)

ConfidenceReturned == cpc = "returned" /\ callee = "calculateConfidenceScore"

\* formScore w1 + homeAwayScore w2 + h2hScore w3 + injuryImpact w4 + leagueMotivation w5
WeightedSum ==
    RAdd(RMul(callArgs.scores.formScore, callArgs.weights.FORM_WEIGHT),
         RAdd(RMul(callArgs.scores.homeAwayScore, callArgs.weights.HOME_AWAY_WEIGHT),
              RAdd(RMul(callArgs.scores.h2hScore, callArgs.weights.HEAD_TO_HEAD_WEIGHT),
                   RAdd(RMul(callArgs.scores.injuryImpact, callArgs.weights.INJURY_WEIGHT),
                        RMul(callArgs.scores.leagueMotivation,
                             callArgs.weights.LEAGUE_POSITION_WEIGHT)))))

\* k is the integer nearest to w, a half counting upwards: k - 1/2 <= w < k + 1/2
NearestInteger(k, w) == 2 * k * w.d - w.d <= 2 * w.n /\ 2 * w.n < 2 * k * w.d + w.d

Clamped(k) == IF k < 0 THEN 0 ELSE IF k > 100 THEN 100 ELSE k

ExampleScores ==
    [formScore |-> Num(80), homeAwayScore |-> Num(75), h2hScore |-> Num(65),
     injuryImpact |-> Num(60), leagueMotivation |-> Num(55)]

\* C16: calculateConfidenceScore returns the weighted sum of the five
\* sub-scores rounded to the nearest integer and clamped to 0..100, whatever
\* the sub-scores and the weights are; with the default weights the
\* sub-scores (80, 75, 65, 60, 55) give 70.
C16_ConfidenceIsClampedRoundedSum ==
    ConfidenceReturned =>
        /\ \E k \in -300..300 : NearestInteger(k, WeightedSum) /\ callResult = Clamped(k)
        /\ callResult \in 0..100
        /\ (callArgs.scores = ExampleScores /\ callArgs.weights = DefaultConfig)
              => callResult = 70

C16_Witness ==
    /\ ConfidenceReturned
    /\ callArgs.scores = ExampleScores /\ callArgs.weights = DefaultConfig
    /\ callResult = 70

AnalyzReturned == cpc = "returned" /\ callee = "analyzMatch"

OnScale(score) == IsNum(score) /\ RGe(score, Zero) /\ RLe(score, Num(100))

\* C17 as stated: each of the five sub-scores analyzMatch computes (form,
\* home/away, head-to-head, injury impact, league motivation) lies between 0
\* and 100 for every stored match: form points 0..15, win rates in [0,1], any
\* head-to-head counts, any league positions and any lists of injuries.
C17_SubScoresOnScale ==
    AnalyzReturned =>
        /\ OnScale(callResult.scores.formScore)
        /\ OnScale(callResult.scores.homeAwayScore)
        /\ OnScale(callResult.scores.h2hScore)
        /\ OnScale(callResult.scores.injuryImpact)
        /\ OnScale(callResult.scores.leagueMotivation)

\* the sub-scores and the teams the decision tree reads
FormOf       == callResult.scores.formScore
HomeAwayOf   == callResult.scores.homeAwayScore
HeadToHeadOf == callResult.scores.h2hScore
HomeOf       == callArgs.match.homeTeam
AwayOf       == callArgs.match.awayTeam

StrongHome   == RGt(FormOf, Num(60)) /\ RGt(HomeAwayOf, Num(60))
WeakHome     == RLt(FormOf, Num(40)) /\ RLt(HeadToHeadOf, Num(40))
BothScore    == RGt(HomeOf.avgGoalsScored, R(15, 10)) /\ RGt(AwayOf.avgGoalsScored, R(15, 10))
ModerateHome == RGe(FormOf, Num(50)) /\ RGe(HomeAwayOf, Num(50))

Recommends(betType, teamId) ==
    ~callResult.isNull /\ callResult.betType = betType /\ callResult.recommendedTeamId = teamId

\* C18: the recommendation is, in this order of priority, HOME_WIN for the
\* home team when form > 60 and home/away > 60; otherwise AWAY_WIN for the
\* away team when form < 40 and head-to-head < 40; otherwise BTTS when both
\* teams score more than 1.5 goals a game; otherwise HOME_WIN when form >= 50
\* and home/away >= 50; otherwise none, and then analyzMatch returns no
\* prediction.
C18_DecisionTree ==
    AnalyzReturned =>
        /\ StrongHome => Recommends("HOME_WIN", HomeOf.id)
        /\ (~StrongHome /\ WeakHome) => Recommends("AWAY_WIN", AwayOf.id)
        /\ (~StrongHome /\ ~WeakHome /\ BothScore) => Recommends("BTTS", HomeOf.id)
        /\ (~StrongHome /\ ~WeakHome /\ ~BothScore /\ ModerateHome)
              => Recommends("HOME_WIN", HomeOf.id)
        /\ (~StrongHome /\ ~WeakHome /\ ~BothScore /\ ~ModerateHome) => callResult.isNull

\* both teams score and the home signal is moderate: BTTS goes first
C18_Witness ==
    /\ AnalyzReturned
    /\ ~StrongHome /\ ~WeakHome /\ BothScore /\ ModerateHome
    /\ Recommends("BTTS", HomeOf.id)

CategoryReturned == cpc = "returned" /\ callee = "determineBetCategory"

\* the three bands, on a confidence, an odds value and a price
SafeBand(confidence, price)  == confidence >= 75 /\ RLe(price, Num(2))
ValueBand(confidence, value) == confidence >= 60 /\ confidence < 75 /\ RGt(value, Num(10))
RiskyBand(confidence, price) == confidence >= 60 /\ confidence < 70 /\ RGt(price, Num(3))

\* the category the bands give, a band that reads a price failing without one
BandCategory(confidence, value, price, priced) ==
    IF priced /\ SafeBand(confidence, price) THEN "SAFE_BET"
    ELSE IF ValueBand(confidence, value) THEN "VALUE_BET"
    ELSE IF priced /\ RiskyBand(confidence, price) THEN "RISKY_BET"
    ELSE "VALUE_BET"

MarketPrice == callArgs.match.homeOdds

RecommendedPrice ==
    IF callResult.recommendedTeamId = callArgs.match.homeTeamId
    THEN callArgs.match.homeOdds ELSE callArgs.match.awayOdds

\* C20 as stated: every prediction in the category SAFE_BET has confidence
\* >= 75 and decimal market odds <= 2.0 for the side it recommends (the home
\* price for a home recommendation, the away price for an away one).
C20_SafeBetHasShortPrice ==
    (AnalyzReturned /\ ~callResult.isNull /\ callResult.category = "SAFE_BET") =>
        /\ callResult.confidenceScore >= 75
        /\ TruthyNum(RecommendedPrice)
        /\ RLe(RecommendedPrice, Num(2))

-----------------------------------------------------------------------------
(***************************************************************************)
(* C21, C22, C28, C29: runs of the engine on the prediction store          *)
(***************************************************************************)
\* the positions of the current run already processed
RunProcessed == 1..eIdx

\* the matches of the current run for which savePrediction has completed
SavedInRun == {i \in RunProcessed : engineLog[i].outcome = "saved"}

\* the rows of the store for a match
RowsOf(matchId) == {k \in 1..Len(store) : store[k].matchId = matchId}

\* a match of the current run is in the list of predictions of the run
Listed(i) ==
    \E k \in 1..Len(enginePredictions) : enginePredictions[k].matchId = upcomingMatches[i].id

\* what has been listed and logged so far in the current run
ListedAboveThreshold ==
    epc \in {"loop", "returned"} =>
        /\ \A k \in 1..Len(enginePredictions) :
              enginePredictions[k].confidenceScore >= MIN_CONFIDENCE_THRESHOLD
        /\ \A i \in SavedInRun :
              /\ upcomingMatches[i].analysis.kind = "prediction"
              /\ upcomingMatches[i].analysis.confidenceScore >= MIN_CONFIDENCE_THRESHOLD
        /\ \A i \in RunProcessed :
              (\/ upcomingMatches[i].analysis.kind = "null"
               \/ /\ upcomingMatches[i].analysis.kind = "prediction"
                  /\ upcomingMatches[i].analysis.confidenceScore < MIN_CONFIDENCE_THRESHOLD)
                 => ~Listed(i) /\ engineLog[i].outcome = "skipped"

\* a row that a step changes or adds is at or above the threshold, and a
\* match that is skipped leaves the store as it is
WritesAboveThreshold ==
    /\ \A k \in 1..Len(store') :
          (k > Len(store) \/ store'[k] # store[k])
             => store'[k].confidenceScore >= MIN_CONFIDENCE_THRESHOLD
    /\ (epc = "loop" /\ eIdx' = eIdx + 1 /\ ~Accepted(upcomingMatches[eIdx + 1]))
          => store' = store

\* C21: every prediction generateWeekendPredictions returns and every
\* prediction it writes to the store has a confidence score of at least
\* MIN_CONFIDENCE_THRESHOLD (60); a match below the threshold or without a
\* recommendation is neither returned nor written in that run.
C21_ThresholdGate == []ListedAboveThreshold /\ [][WritesAboveThreshold]_vars

C21_Witness ==
    /\ epc = "returned"
    /\ \E i \in RunProcessed :
          /\ upcomingMatches[i].analysis.kind = "prediction"
          /\ upcomingMatches[i].analysis.confidenceScore < MIN_CONFIDENCE_THRESHOLD
    /\ SavedInRun # {}
    /\ Len(enginePredictions) = 1

\* the row the current run stores for its match i
RowOfRun(i) ==
    [matchId |-> upcomingMatches[i].id,
     confidenceScore |-> upcomingMatches[i].analysis.confidenceScore,
     isActive |-> TRUE]

C28_ReturnedArePersisted ==
    epc = "returned" =>
        /\ \A i \in RunProcessed : Listed(i) <=> i \in SavedInRun
        /\ Len(enginePredictions) = Cardinality(SavedInRun)

\* the step processes a match of the run that yields no prediction: analyzMatch
\* throws or returns null, or the confidence is below the threshold
YieldsNothing ==
    /\ epc = "loop" /\ eIdx' = eIdx + 1
    /\ ~Accepted(upcomingMatches[eIdx + 1])

\* no row is removed or deactivated by the step, a row keeps its match, and a
\* match that yields nothing leaves every row as it was
RowsKept ==
    /\ Len(store') >= Len(store)
    /\ \A k \in 1..Len(store) :
          /\ store'[k].matchId = store[k].matchId
          /\ store[k].isActive => store'[k].isActive
    /\ YieldsNothing => store' = store

\* C29: no engine run deletes or deactivates a stored prediction; when a later
\* run yields no prediction for a match (no recommendation, confidence below
\* the threshold, or an error) the row an earlier run stored stays as it is,
\* active.
C29_StoredPredictionsStay == [][RowsKept]_vars

\* C29 witness: the run has returned, its match 1 gave no prediction, and the
\* store still holds the active row of match 1 from an earlier run.
C29_Witness ==
    /\ epc = "returned" /\ Len(upcomingMatches) >= 1
    /\ ~Accepted(upcomingMatches[1])
    /\ \E k \in 1..Len(store) : store[k].matchId = 1 /\ store[k].isActive

-----------------------------------------------------------------------------
(***************************************************************************)
(* C23: the inputs of the reconciliation                                    *)
(***************************************************************************)
\* C23 as stated: mergeMatchData (and generateFeatures, which calls it) leaves
\* every record of its input arrays with the fields and values it had before
\* the call: no step changes a record of the caller's Flashscore array.
C23_InputsNotModified == [][flashscoreMatches' = flashscoreMatches]_vars

-----------------------------------------------------------------------------
(***************************************************************************)
(* C24: the rate limit of the Sportmonks client                            *)
(***************************************************************************)
\* C24 as stated: any two HTTP requests of the client start at least
\* SPORTMONKS_RATE_LIMIT_DELAY milliseconds apart, for every interleaving of
\* the callers of request().
C24_RequestsSpacedApart ==
    \A i \in 1..Len(sent) : \A j \in 1..Len(sent) :
        i < j => sent[j] - sent[i] >= SPORTMONKS_RATE_LIMIT_DELAY

-----------------------------------------------------------------------------
(***************************************************************************)
(* C25: the cache without Redis                                            *)
(***************************************************************************)
\* Redis is not available: the client was never created, the last event was
\* an 'error', or the retry strategy has given up
RedisUnavailable(status) == status \in {"null", "failed", "ended"}

\* the last operation was called while Redis was not available
CalledWithoutRedis == cacheReturn # <<>> /\ RedisUnavailable(cacheReturn.redis)

\* C25: while the cache is disabled (after a Redis 'error' event or after the
\* retry strategy has given up after more than 3 attempts, until a later
\* 'connect') get returns null and set, delete and deletePattern do nothing;
\* and in every state of the cache none of the four throws to its caller.
C25_WorksWithoutRedis ==
    /\ RedisUnavailable(redis) => ~isEnabled
    /\ times > 3 => redis = "ended"
    /\ redis = "up" => isEnabled
    /\ cacheReturn # <<>> => ~cacheReturn.outcome.threw
    /\ CalledWithoutRedis =>
          /\ ~cacheReturn.enabled
          /\ cacheReturn.outcome.issued = <<>>
          /\ cacheReturn.outcome.value = IF cacheReturn.op = "get" THEN "null" ELSE "undefined"

\* C25 witness: get was called after an 'error' event and returned null
\* without a Redis command, after an earlier operation had reached Redis.
C25_Witness ==
    /\ CalledWithoutRedis
    /\ cacheReturn.redis = "failed" /\ cacheReturn.op = "get"
    /\ cacheReturn.outcome = Resolves("null", <<>>)
    /\ Len(commands) > 0

-----------------------------------------------------------------------------
(***************************************************************************)
(* C26: implied probability and back                                       *)
(***************************************************************************)
ImpliedReturned  == callee = "decimalToImpliedProbability" /\ cpc \in {"returned", "converted"}
ImpliedConverted == callee = "decimalToImpliedProbability" /\ cpc = "converted"
IsPrice(d)       == IsNum(d) /\ RGt(d, One)

-----------------------------------------------------------------------------
(***************************************************************************)
(* C27: the model probabilities of a prediction                            *)
(***************************************************************************)
\* a number, or undefined for a market that no bookmaker quotes
NumberOrAbsent(x) == IsNum(x) \/ x = Undefined

\* the numeric features generateFeatures has built (the form points and the
\* head-to-head counts are integers by construction)
FiniteFeatures(f) ==
    /\ IsNum(f.home_goals_scored_avg) /\ IsNum(f.home_goals_conceded_avg)
    /\ IsNum(f.away_goals_scored_avg) /\ IsNum(f.away_goals_conceded_avg)
    /\ IsNum(f.home_advantage_factor)
    /\ IsNum(f.market_implied_prob_home) /\ IsNum(f.market_implied_prob_draw)
    /\ IsNum(f.market_implied_prob_away)
    /\ NumberOrAbsent(f.market_implied_prob_btts_yes)
    /\ NumberOrAbsent(f.market_implied_prob_over_2_5)

StrictlyInside(p) == IsNum(p) /\ RGt(p, Zero) /\ RLt(p, One)
InTenths(p)       == IsNum(p) /\ RGe(p, R(1, 10)) /\ RLe(p, R(9, 10))

WellFormed1X2(prob) ==
    /\ StrictlyInside(prob.home) /\ StrictlyInside(prob.draw) /\ StrictlyInside(prob.away)
    /\ RAdd(RAdd(prob.home, prob.draw), prob.away) = One
WellFormedBTTS(prob) ==
    InTenths(prob.yes) /\ RAdd(prob.yes, prob.no) = One
WellFormedOverUnder(prob) ==
    InTenths(prob.over_2_5) /\ RAdd(prob.over_2_5, prob.under_2_5) = One

\* C27: every prediction in the output of predictMatches is made from
\* features that are finite numbers (the implied probability of BTTS or of
\* over 2.5 is undefined when nobody quotes the market, and the default is
\* then used), and it has home + draw + away = 1 with each of the three
\* strictly between 0 and 1, BTTS yes in [0.1, 0.9] with yes + no = 1, and
\* over 2.5 in [0.1, 0.9] with over + under = 1.
C27_ProbabilitiesWellFormed ==
    \A i \in 1..Len(predictions) :
        /\ FiniteFeatures(predictions[i].raw_features)
        /\ WellFormed1X2(predictions[i].model_prob_1x2)
        /\ WellFormedBTTS(predictions[i].model_prob_btts)
        /\ WellFormedOverUnder(predictions[i].model_prob_over_under)

\* C27 witness: a returned prediction in which the clamps have acted: home at
\* its upper end 0.9 and away at its lower end 0.05 before the division (home
\* is 18 times away), and BTTS yes at the upper end 0.9.
C27_Witness ==
    /\ ppc = "returned" /\ Len(predictions) = 1
    /\ FiniteFeatures(predictions[1].raw_features)
    /\ predictions[1].model_prob_1x2.home = RMul(Num(18), predictions[1].model_prob_1x2.away)
    /\ predictions[1].model_prob_btts.yes = R(9, 10)

-----------------------------------------------------------------------------
(***************************************************************************)
(* C30: isSimilarTeamName as a relation                                    *)
(***************************************************************************)
\* C30: isSimilarTeamName(a, b) = isSimilarTeamName(b, a), isSimilarTeamName(a, a)
\* is true, and a name whose normalized form is empty (only club words such as
\* "FC United", only characters that are no letters or digits, or no
\* characters) matches every name, every normalized name including the empty
\* string.
C30_SymmetricReflexiveEmptyMatchesAll ==
    MatcherReturned =>
        /\ callResult = isSimilarTeamName(callArgs[2], callArgs[1])
        /\ callArgs[1] = callArgs[2] => callResult
        /\ normalize(callArgs[1]) = <<>> =>
              callResult /\ Includes(normalize(callArgs[2]), <<>>)

\* C30 witness: "FC United" has matched "Chelsea".
C30_Witness ==
    /\ MatcherReturned
    /\ callArgs = <<NameFCUnited, NameChelsea>>
    /\ normalize(NameFCUnited) = <<>>
    /\ callResult

=============================================================================
